---------------------------- MODULE Spec2Model ----------------------------
(***************************************************************************)
(* A model of genji: engine transactions (badgerengine), Database.Begin,   *)
(* Query.Run, Table (Insert / Replace / Delete / ReIndex with index        *)
(* maintenance, Iterate, constraint validation), the INSERT and CREATE     *)
(* TABLE, CREATE INDEX and CREATE SEQUENCE statements, Sequence.Next,      *)
(* Result.Close, document.Stream, the SELECT plan, the projection, the     *)
(* stores of the badger engine, the EXPLAIN and UPDATE statements, the     *)
(* comparison operators, Table.Truncate and Database.New.                  *)
(*                                                                         *)
(* The specifications share this module, one per subsystem; each leaves    *)
(* the variables of the other subsystems untouched:                        *)
(*   SpecTx       engine transactions opened through Database.Begin        *)
(*   SpecRun      Query.Run, statement by statement, and Result.Close      *)
(*   SpecTable    Table.Insert / Replace / Delete / ReIndex and the        *)
(*                indexes                                                  *)
(*   SpecInsert   an INSERT statement run by Query.Run in a transaction    *)
(*   SpecScan     Table.Iterate over a table keyed by docid                *)
(*   SpecValidate Table.ValidateConstraints under Insert and Replace       *)
(*   SpecDdl      CreateTableStmt.Run and the catalog                      *)
(*   SpecSeq      Sequence.Next, with transactions around it               *)
(*   SpecCreate   the CREATE TABLE, CREATE INDEX and CREATE SEQUENCE       *)
(*                statements on one table                                  *)
(*   SpecStream   document.Stream: Pipe, Append, Iterate, First            *)
(*   SpecFilter   streams of Filter operators                              *)
(*   SpecSelect   selectConfig.ToTree and the stream it stands for         *)
(*   SpecProject  MaskDocument, the document of a projection               *)
(*   SpecEngine   Transaction of the badger engine and its stores          *)
(*   SpecTruncate the callers of SpecTable and Table.Truncate              *)
(*   SpecExplain  ExplainStmt.Run                                          *)
(*   SpecOperator Eval and Equal of the comparison operators               *)
(*   SpecUpdate   UpdateStmt.Run, batch by batch                           *)
(*   SpecUpdateFair  UpdateStmt.Run that is not suspended for ever         *)
(*   SpecDatabase Database.New and Database.Begin over a failing engine    *)
(***************************************************************************)
EXTENDS Integers, Sequences, FiniteSets

VARIABLES
    txs,        \* engine transactions, in the order Engine.Begin created them
    dbData,     \* the writes committed to the engine
    run,        \* the Query.Run in progress: its locals and its position
    attachedTx, \* db.GetAttachedTx(): 0 (nil) or an index of txs
    info,       \* TableInfo of the table: [readOnly, pk]
    indexes,    \* the index store: IndexConfig records in iteration order
    store,      \* the table's store: key -> document
    idx,        \* the content of each index: a set of <<value, key>> entries
    tblRes,     \* the outcome of the last Table call and whether all succeeded
    docid,      \* the sequence of the table's store (Store.NextSequence)
    committed,  \* the table and its indexes as the engine has them committed
    insStmt,    \* the INSERT statement that Query.Run is running
    scanStore,  \* a store keyed by docid: <<key, n>> for the n-th document
    scanned,    \* the documents that the last Table.Iterate yielded, in order
    fcs,        \* info.FieldConstraints of a table with constraints
    vStore,     \* the documents in the store of that table
    vRes,       \* the last Insert or Replace on that table: document and error
    catalog,    \* the catalog: the tables and the indexes it holds
    ddlRes,     \* the last CREATE TABLE: its arguments and what it returned
    seqInfo,    \* SequenceInfo
    seq,        \* the Sequence object: [CurrentValue, Cached]
    lease,      \* the seq field of the sequence table: committed / in the tx
    seqTx,      \* the transaction Sequence.Next is called in
    seqObs,     \* what the callers of Sequence.Next have observed
    result,     \* the Result that Query.Run returned and the calls of its Close
    stream,     \* a document.Stream, as NewStream, Pipe and Append built it
    iter,       \* the last Stream.Iterate or Stream.First: what it passed on
    selectCfg,  \* the selectConfig of a parsed SELECT and the table it reads
    mask,       \* a MaskDocument: the projected expressions and the source
    projected,  \* the fields that MaskDocument.Iterate enumerated, in order
    snapshots,  \* for each engine transaction, the stores that badger shows it
    engRes,     \* the last call on an engine transaction and what it returned
    explained,  \* the last ExplainStmt.Run: the database before and after it
    operation,  \* an operator expression, its operands and what it evaluated to
    update,     \* the UpdateStmt.Run in progress: the table and Run's locals
    database    \* the Database of New and the last call of New or Begin

txVars  == <<txs, dbData>>
runVars == <<run, attachedTx>>
tblVars == <<info, indexes, store, idx, tblRes, docid>>
insVars == <<committed, insStmt, scanStore, scanned>>
valVars == <<fcs, vStore, vRes>>
ddlVars == <<catalog, ddlRes>>
seqVars == <<seqInfo, seq, lease, seqTx, seqObs>>
resVars == <<result>>
strVars == <<stream, iter, selectCfg>>
prjVars == <<mask, projected>>
engVars == <<snapshots, engRes>>
qryVars == <<resVars, strVars, prjVars, engVars>>
stmVars == <<explained, operation, update, database>>
vars    == <<txs, dbData, run, attachedTx, info, indexes, store, idx, tblRes,
             docid, committed, insStmt, scanStore, scanned,
             fcs, vStore, vRes, catalog, ddlRes, seqInfo, seq, lease, seqTx, seqObs,
             result, stream, iter, selectCfg, mask, projected, snapshots, engRes,
             explained, operation, update, database>>

(***************************************************************************)
(* Bounds of the model.                                                    *)
(***************************************************************************)
MaxTx    == 3   \* engine transactions begun in one behaviour of SpecTx
MaxStmts == 3   \* statements of one Query
MaxKey   == 2   \* primary keys are 1..MaxKey
MaxVal   == 1   \* values of the field a are Null and 1..MaxVal
IntBits  == 4   \* width of the signed integers of a sequence (64 in the code)
MaxCache == 3   \* SequenceInfo.Cache is in 1..MaxCache
MaxFaults == 1  \* failures of SetLease in one behaviour
MaxDocs  == 2   \* documents of one INSERT statement
VarintBits == 2 \* value bits of one byte of a varint (7 in the code)
MaxDocid == 9   \* documents inserted in a table without primary key
MaxConstraints == 2  \* field constraints of a table
MaxIndexes == 2 \* indexes of one path of one table in the catalog
MaxUpdKeys == 3  \* documents of the table of an UPDATE statement
updateBufferSize == 2 \* the size of the update buffer (100 in the code)
MaxBatches == 4  \* the counters of UpdateStmt.Run stop at this value
MaxSeq == 2      \* documents that the INSERT statements of SpecExplain add
MaxOpen == 2     \* engine transactions begun in one behaviour of SpecEngine
MaxCloses == 2  \* calls of Close on one Result

None == "none"

(***************************************************************************)
(* The idle value of each subsystem, used by the specifications of the     *)
(* other subsystems.                                                       *)
(***************************************************************************)
IdleTx  == txs = <<>> /\ dbData = {}
IdleRun == run = [pc |-> "idle"] /\ attachedTx = 0
IdleTbl == /\ info = [readOnly |-> FALSE, pk |-> TRUE] /\ indexes = <<>>
           /\ store = <<>> /\ idx = <<>> /\ docid = 0
           /\ tblRes = [op |-> None, err |-> None, allOk |-> TRUE,
                 existed |-> FALSE, changed |-> FALSE]
IdleIns == /\ committed = None /\ insStmt = None
           /\ scanStore = {} /\ scanned = <<>>
IdleVal == fcs = <<>> /\ vStore = {} /\ vRes = None
IdleDdl == catalog = None /\ ddlRes = None
IdleSeq == /\ seqInfo = None /\ seq = None /\ lease = None /\ seqTx = None
           /\ seqObs = None
IdleRes == result = None
IdleStr == stream = None /\ iter = None /\ selectCfg = None
IdlePrj == mask = None /\ projected = None
IdleEng == snapshots = <<>> /\ engRes = None
IdleStm == explained = None /\ operation = None /\ update = None
             /\ database = None

(***************************************************************************)
(* Engine transactions (badgerengine).                                     *)
(*   writable, discarded : the fields of badgerengine.Transaction          *)
(*   committed   : badger's Commit succeeded, the writes are in dbData     *)
(*   commitCalled: Commit was called on a transaction not yet discarded    *)
(*   writes      : the writes buffered in the badger transaction           *)
(*   stmt        : the statement of Query.Run it was begun for, 0 if none  *)
(*   lost        : Database.Begin failed after Engine.Begin: no caller     *)
(*                 holds the transaction                                   *)
(***************************************************************************)
NewTransaction(writable, stmt, lost) ==
    [writable |-> writable, discarded |-> FALSE, committed |-> FALSE,
     commitCalled |-> FALSE, writes |-> {}, stmt |-> stmt, lost |-> lost]

\* Engine.Begin: a badger transaction is created whatever transactions are
\* open; the call never blocks and never fails.
EngineBegin(ts, writable, stmt, lost) ==
    Append(ts, NewTransaction(writable, stmt, lost))

\* Transaction.Rollback: discards the badger transaction, returns nil.
TxRollback(ts, t) == [ts EXCEPT ![t].discarded = TRUE]

\* Transaction.Commit: the error it returns, for badger's answer ok.
CommitErr_NoDiscardedTest(tx, ok) ==
    IF ~tx.writable THEN "ErrTransactionReadOnly"
    ELSE IF ok THEN None ELSE "ErrConflict"

CommitErr(tx, ok) ==
    IF tx.discarded THEN "ErrDiscardedTxn"
    ELSE IF ~tx.writable THEN "ErrTransactionReadOnly"
    ELSE IF ok THEN None ELSE "ErrConflict"

\* Transaction.Commit: the transaction afterwards.
TxCommit(ts, t, ok) ==
    IF ts[t].discarded \/ ~ts[t].writable THEN ts
    ELSE [ts EXCEPT ![t].discarded = TRUE, ![t].commitCalled = TRUE,
                    ![t].committed = ok]

\* The engine's data after Transaction.Commit.
CommitData(data, tx, ok) ==
    IF CommitErr(tx, ok) = None THEN data \cup tx.writes ELSE data

IsOpen(tx) == ~tx.discarded

(***************************************************************************)
(* SpecTx: callers of Database.Begin, Commit and Rollback.                 *)
(***************************************************************************)
\* Database.Begin(writable): Engine.Begin, then the two config stores are
\* fetched; when that fails (ok = FALSE) the error is returned and the
\* engine transaction stays as it is.
DbBegin(writable, ok) ==
    /\ Len(txs) < MaxTx
    /\ txs' = EngineBegin(txs, writable, 0, ~ok)
    /\ UNCHANGED <<dbData, runVars, tblVars, seqVars, insVars, valVars, ddlVars, qryVars,
                   stmVars>>

DbCommit(t, ok) ==
    /\ ~txs[t].lost
    /\ txs' = TxCommit(txs, t, ok)
    /\ dbData' = CommitData(dbData, txs[t], ok)
    /\ txs' # txs
    /\ UNCHANGED <<runVars, tblVars, seqVars, insVars, valVars, ddlVars, qryVars,
                   stmVars>>

DbRollback(t) ==
    /\ ~txs[t].lost
    /\ IsOpen(txs[t])
    /\ txs' = TxRollback(txs, t)
    /\ UNCHANGED <<dbData, runVars, tblVars, seqVars, insVars, valVars, ddlVars, qryVars,
                   stmVars>>

InitTx == IdleTx /\ IdleRun /\ IdleTbl /\ IdleIns /\ IdleSeq /\ IdleVal /\ IdleDdl
    /\ IdleRes /\ IdleStr /\ IdlePrj /\ IdleEng /\ IdleStm

NextTx ==
    \/ \E w \in BOOLEAN, ok \in BOOLEAN : DbBegin(w, ok)
    \/ \E t \in 1..Len(txs), ok \in BOOLEAN : DbCommit(t, ok)
    \/ \E t \in 1..Len(txs) : DbRollback(t)

SpecTx == InitTx /\ [][NextTx]_vars

(***************************************************************************)
(* C3: at any time at most one writable transaction opened through         *)
(* Database.Begin(true) is open (a second Begin(true) blocks or fails      *)
(* until the first is committed or rolled back).                           *)
(***************************************************************************)
C3_OpenWritable ==
    {t \in 1..Len(txs) : txs[t].writable /\ IsOpen(txs[t]) /\ ~txs[t].lost}

C3_AtMostOneWriter == Cardinality(C3_OpenWritable) <= 1

(***************************************************************************)
(* Query.Run.  A statement is read-only ("ro"), writing ("rw") or a        *)
(* queryAlterer ("alter").  run holds the locals of Run:                   *)
(*   stmts, i   : q.Statements and the (1-based) loop index                *)
(*   tx         : q.tx, 0 for nil                                          *)
(*   autoCommit : q.autoCommit                                             *)
(*   resTx      : res.Tx of the returned Result, 0 for nil                 *)
(*   err        : what made Run return an error, None if nothing did       *)
(*   ranIn      : for each statement whose Run was called, the             *)
(*                transaction it was called with                           *)
(***************************************************************************)
StmtKinds == {"ro", "rw", "alter"}

RECURSIVE SeqsUpTo(_, _)
SeqsUpTo(S, n) ==
    IF n = 0 THEN {<<>>}
    ELSE LET shorter == SeqsUpTo(S, n - 1)
         IN  shorter \cup {Append(q, x) : q \in {r \in shorter : Len(r) = n - 1}, x \in S}

\* The Result of Run before any Close: closed is r.closed, calls counts the
\* calls of Close, err is what the last one returned, and txs and dbData
\* are the transactions and the committed data as the last one found them.
NoResult ==
    [closed |-> FALSE, calls |-> 0, err |-> None, txs |-> <<>>, dbData |-> {}]

InitRun ==
    /\ \E ss \in SeqsUpTo(StmtKinds, MaxStmts) \ {<<>>} :
          run = [pc |-> "start", stmts |-> ss, i |-> 1, tx |-> 0,
                 autoCommit |-> FALSE, resTx |-> 0, err |-> None,
                 ranIn |-> [j \in 1..Len(ss) |-> 0]]
    /\ \/ attachedTx = 0 /\ txs = <<>>
       \/ \E w \in BOOLEAN : attachedTx = 1 /\ txs = <<NewTransaction(w, 0, FALSE)>>
    /\ dbData = {}
    /\ result = NoResult
    /\ IdleTbl /\ IdleIns /\ IdleSeq /\ IdleVal /\ IdleDdl
    /\ IdleStr /\ IdlePrj /\ IdleEng /\ IdleStm

\* q.tx = db.GetAttachedTx(); if q.tx == nil { q.autoCommit = true }
RunStart ==
    /\ run.pc = "start"
    /\ run' = [run EXCEPT !.pc = "loop", !.tx = attachedTx,
                          !.autoCommit = (attachedTx = 0)]
    /\ UNCHANGED <<txVars, attachedTx, tblVars, seqVars, insVars, valVars, ddlVars, qryVars,
                   stmVars>>

\* The statement is a queryAlterer: alterQuery; on an error the attached
\* transaction, if any, is rolled back and Run returns the error.
RunAlter(ok) ==
    /\ run.pc = "loop" /\ run.i <= Len(run.stmts)
    /\ run.stmts[run.i] = "alter"
    /\ IF ok
       THEN /\ run' = [run EXCEPT !.i = @ + 1]
            /\ UNCHANGED txs
       ELSE /\ run' = [run EXCEPT !.pc = "done", !.err = "alter"]
            /\ txs' = IF attachedTx # 0 THEN TxRollback(txs, attachedTx) ELSE txs
    /\ UNCHANGED <<dbData, attachedTx, tblVars, seqVars, insVars, valVars, ddlVars, qryVars,
                   stmVars>>

\* if q.tx == nil { q.tx, err = db.Begin(!stmt.IsReadOnly()) }
BeginWritable(kind) == kind # "ro"

RunBegin(ok) ==
    /\ run.pc = "loop" /\ run.i <= Len(run.stmts)
    /\ run.stmts[run.i] # "alter"
    /\ run.tx = 0
    /\ txs' = EngineBegin(txs, BeginWritable(run.stmts[run.i]), run.i, ~ok)
    /\ run' = IF ok THEN [run EXCEPT !.tx = Len(txs) + 1]
                    ELSE [run EXCEPT !.pc = "done", !.err = "begin"]
    /\ UNCHANGED <<dbData, attachedTx, tblVars, seqVars, insVars, valVars, ddlVars, qryVars,
                   stmVars>>

\* The transactions after stmt.Run returned an error:
\* if q.autoCommit { q.tx.Rollback() }
StmtErrTxs_NoRollback(ts, t, autoCommit) == ts

StmtErrTxs(ts, t, autoCommit) ==
    IF autoCommit THEN TxRollback(ts, t) ELSE ts

\* The test that closes the current transaction because statements remain:
\* q.tx != nil && q.autoCommit && i+1 < len(q.Statements), i counted from 0.
MustClose_OffByOne(tx, autoCommit, i, n) == tx # 0 /\ autoCommit /\ i + 1 < n

MustClose(tx, autoCommit, i, n) == tx # 0 /\ autoCommit /\ i < n

\* res, err = stmt.Run(q.tx, args).  A writing statement writes through
\* q.tx before it returns, with or without an error; on a read-only
\* transaction its write is refused and it returns the error.
RunStmt(ok) ==
    /\ run.pc = "loop" /\ run.i <= Len(run.stmts)
    /\ run.stmts[run.i] # "alter"
    /\ run.tx # 0
    /\ LET t      == run.tx
           writes == run.stmts[run.i] = "rw"
           ran    == [txs EXCEPT ![t].writes = IF writes THEN @ \cup {run.i} ELSE @]
       IN  /\ (writes /\ ~txs[t].writable) => ~ok
           /\ IF ok
              THEN /\ txs' = ran
                   /\ run' = [run EXCEPT
                          !.ranIn[run.i] = t,
                          !.pc = IF MustClose(t, run.autoCommit, run.i, Len(run.stmts))
                                 THEN "close" ELSE "loop",
                          !.i = IF MustClose(t, run.autoCommit, run.i, Len(run.stmts))
                                THEN @ ELSE @ + 1]
              ELSE /\ txs' = StmtErrTxs(IF txs[t].writable THEN ran ELSE txs,
                                        t, run.autoCommit)
                   /\ run' = [run EXCEPT !.ranIn[run.i] = t, !.pc = "done",
                                         !.err = "stmt"]
    /\ UNCHANGED <<dbData, attachedTx, tblVars, seqVars, insVars, valVars, ddlVars, qryVars,
                   stmVars>>

\* Statements remain: q.tx.Commit() if q.tx.Writable(), else q.tx.Rollback();
\* an error is returned; otherwise q.tx = nil.
RunClose(ok) ==
    /\ run.pc = "close"
    /\ LET t == run.tx
       IN  IF txs[t].writable
           THEN /\ txs' = TxCommit(txs, t, ok)
                /\ dbData' = CommitData(dbData, txs[t], ok)
                /\ run' = IF CommitErr(txs[t], ok) = None
                          THEN [run EXCEPT !.pc = "loop", !.tx = 0, !.i = @ + 1]
                          ELSE [run EXCEPT !.pc = "done", !.err = "commit"]
           ELSE /\ ok
                /\ txs' = TxRollback(txs, t)
                /\ dbData' = dbData
                /\ run' = [run EXCEPT !.pc = "loop", !.tx = 0, !.i = @ + 1]
    /\ UNCHANGED <<attachedTx, tblVars, seqVars, insVars, valVars, ddlVars, qryVars,
                   stmVars>>

\* After the loop: if q.autoCommit { res.Tx = q.tx }; return &res, nil
RunReturn ==
    /\ run.pc = "loop" /\ run.i > Len(run.stmts)
    /\ run' = [run EXCEPT !.pc = "done",
                          !.resTx = IF run.autoCommit THEN run.tx ELSE 0]
    /\ UNCHANGED <<txVars, attachedTx, tblVars, seqVars, insVars, valVars, ddlVars, qryVars,
                   stmVars>>

\* if r.closed { return ErrResultClosed }
ResultClosed_Never(r) == FALSE

ResultClosed(r) == r.closed

\* Result.Close on the Result that Run returned; res.Tx is run.resTx.
ResultClose(ok) ==
    /\ run.pc \in {"done", "closed"} /\ run.err = None
    /\ result.calls < MaxCloses
    /\ run' = [run EXCEPT !.pc = "closed"]
    /\ LET t    == run.resTx
           call == [result EXCEPT !.calls = @ + 1, !.txs = txs, !.dbData = dbData]
       IN  IF ResultClosed(result)
           THEN /\ ok
                /\ result' = [call EXCEPT !.err = "ErrResultClosed"]
                /\ UNCHANGED <<txs, dbData>>
           ELSE IF t = 0
           THEN /\ ok
                /\ result' = [call EXCEPT !.closed = TRUE, !.err = None]
                /\ UNCHANGED <<txs, dbData>>
           ELSE IF txs[t].writable
           THEN /\ txs' = TxCommit(txs, t, ok)
                /\ dbData' = CommitData(dbData, txs[t], ok)
                /\ result' = [call EXCEPT !.closed = TRUE,
                                          !.err = CommitErr(txs[t], ok)]
           ELSE /\ ok
                /\ txs' = TxRollback(txs, t)
                /\ dbData' = dbData
                /\ result' = [call EXCEPT !.closed = TRUE, !.err = None]
    /\ UNCHANGED <<attachedTx, tblVars, seqVars, insVars, valVars, ddlVars,
                   strVars, prjVars, engVars, stmVars>>

\* Result.Close on the nil Result that Run returns with an error.
ResultCloseNil ==
    /\ run.pc = "done" /\ run.err # None
    /\ result.calls < MaxCloses
    /\ result' = [result EXCEPT !.calls = @ + 1, !.err = None,
                                !.txs = txs, !.dbData = dbData]
    /\ UNCHANGED <<run, txVars, attachedTx, tblVars, seqVars, insVars, valVars,
                   ddlVars, strVars, prjVars, engVars, stmVars>>

NextRun ==
    \/ RunStart
    \/ \E ok \in BOOLEAN : RunAlter(ok)
    \/ \E ok \in BOOLEAN : RunBegin(ok)
    \/ \E ok \in BOOLEAN : RunStmt(ok)
    \/ \E ok \in BOOLEAN : RunClose(ok)
    \/ RunReturn
    \/ \E ok \in BOOLEAN : ResultClose(ok)
    \/ ResultCloseNil

SpecRun == InitRun /\ [][NextRun]_vars

C4_RunTxs == {t \in 1..Len(txs) : txs[t].stmt # 0}

(***************************************************************************)
(* C2: in auto-commit mode, when a statement's Run returns an error,       *)
(* Query.Run rolls back the transaction the statement ran in without ever  *)
(* committing it, runs no later statement and returns the error; none of   *)
(* the failing statement's writes is in the committed data.                *)
(***************************************************************************)
C2_FailedStatementRolledBack ==
    (run.pc = "done" /\ run.err = "stmt" /\ run.autoCommit) =>
        LET t == run.ranIn[run.i]
        IN  /\ t # 0
            /\ txs[t].discarded /\ ~txs[t].commitCalled /\ ~txs[t].committed
            /\ txs[t].writes \cap dbData = {}
            /\ run.i \notin dbData
            /\ \A j \in 1..Len(run.stmts) : j > run.i => run.ranIn[j] = 0
            /\ run.resTx = 0

\* A writing statement, neither first nor last, failed after it wrote, and
\* an earlier statement's writes are committed.
C2_Witness ==
    /\ run.pc = "done" /\ run.err = "stmt" /\ run.autoCommit
    /\ run.stmts[run.i] = "rw" /\ run.i \in txs[run.ranIn[run.i]].writes
    /\ 1 < run.i /\ run.i < Len(run.stmts)
    /\ dbData # {}

(***************************************************************************)
(* C4: in auto-commit mode Query.Run runs each statement in a transaction  *)
(* of its own, writable exactly when the statement is not read-only; the   *)
(* transaction is committed (writable) or rolled back (read-only) before   *)
(* the next statement's transaction is begun, so at most one transaction   *)
(* opened by Run is open at any time, and only the last statement's        *)
(* transaction is handed, still open, to the returned Result.              *)
(***************************************************************************)
C4_OneTransactionPerStatement ==
    (run.pc # "start" /\ run.autoCommit) =>
        /\ \A t \in C4_RunTxs : txs[t].writable = (run.stmts[txs[t].stmt] # "ro")
        /\ \A j \in 1..Len(run.stmts) :
              run.ranIn[j] # 0 => txs[run.ranIn[j]].stmt = j
        /\ \A t1, t2 \in C4_RunTxs :
              t1 < t2 => /\ txs[t1].stmt < txs[t2].stmt
                         /\ txs[t1].discarded
                         /\ txs[t1].commitCalled = txs[t1].writable
        /\ Cardinality({t \in C4_RunTxs : IsOpen(txs[t])}) <= 1
        /\ (run.pc = "done" /\ run.err = None) =>
              /\ \A t \in C4_RunTxs : IsOpen(txs[t]) => t = run.resTx
              /\ run.resTx # 0 => /\ IsOpen(txs[run.resTx])
                                  /\ txs[run.resTx].stmt = Len(run.stmts)
              /\ run.stmts[Len(run.stmts)] # "alter" => run.resTx # 0

\* Three statements ran, each in its own transaction: a writing one was
\* committed, a read-only one rolled back, the last one's is handed over.
C4_Witness ==
    /\ run.pc = "done" /\ run.err = None /\ run.autoCommit
    /\ Cardinality(C4_RunTxs) = 3

(***************************************************************************)
(* C28: the first Close of a Result commits the transaction it owns when   *)
(* that is writable and rolls it back when it is read-only, and returns    *)
(* nil when it owns none; every later Close returns ErrResultClosed and    *)
(* leaves the transactions and the committed data as they are.             *)
(***************************************************************************)
C28_CloseOnce ==
    (run.pc = "closed" /\ result.calls > 0) =>
        LET t == run.resTx
        IN  /\ result.closed
            /\ (result.calls = 1 /\ t = 0) =>
                  (result.err = None /\ txs = result.txs /\ dbData = result.dbData)
            /\ (result.calls = 1 /\ t # 0) =>
                  /\ IsOpen(result.txs[t]) /\ txs[t].discarded
                  /\ txs[t].commitCalled = txs[t].writable
                  /\ txs[t].writable =>
                        /\ result.err = None <=> txs[t].committed
                        /\ txs[t].committed => txs[t].writes \subseteq dbData
                  /\ ~txs[t].writable => (result.err = None /\ dbData = result.dbData)
            /\ result.calls > 1 =>
                  /\ result.err = "ErrResultClosed"
                  /\ txs = result.txs /\ dbData = result.dbData

\* Close was called twice on a Result whose writable transaction the first
\* call committed, writes included.
C28_Witness ==
    /\ run.pc = "closed" /\ result.calls = 2
    /\ run.resTx # 0 /\ txs[run.resTx].writable /\ txs[run.resTx].committed
    /\ txs[run.resTx].writes # {}
    /\ result.err = "ErrResultClosed"
    /\ run.resTx = 3
    /\ \E t \in C4_RunTxs : txs[t].committed
    /\ \E t \in C4_RunTxs : ~txs[t].writable /\ txs[t].discarded

(***************************************************************************)
(* Table.  The table declares an untyped primary key on the field id      *)
(* (info.pk) or no primary key, and no other constraint; a document has    *)
(* the fields id and a, each possibly absent (GetValue then returns        *)
(* ErrFieldNotFound, here Missing).  The storage key of a document is the  *)
(* encoding of its primary key or of its docid, which is one-to-one: the   *)
(* key is written as the primary key, or the docid, itself.                *)
(***************************************************************************)
Missing == [type |-> "missing", v |-> 0]
Null    == [type |-> "null", v |-> 0]
IntegerValue(n) == [type |-> "integer", v |-> n]

Keys        == 1..MaxKey
FieldValues == {Null} \cup {IntegerValue(n) : n \in 1..MaxVal}
Paths       == {"id", "a"}
Documents   == [id : {IntegerValue(n) : n \in Keys} \cup {Missing},
                a  : FieldValues \cup {Missing}]

\* A slot of the store: <<>> when the key is absent, <<d>> when it holds d.
NoDoc == <<>>

\* An IndexConfig document of the index store.
IndexConfigs == [path : Paths, unique : BOOLEAN]

\* Path.GetValue(d): the value at the path, Missing for ErrFieldNotFound.
GetValue(path, d) == d[path]

\* Table.Indexes: the index store is iterated and each index of the table is
\* put in a map under its path, indexes[opts.Path.String()] = ...; of the
\* indexes of one path the map keeps the one iterated last.
TableIndexes ==
    {i \in 1..Len(indexes) :
        \A j \in (i + 1)..Len(indexes) : indexes[j].path # indexes[i].path}

\* Index.Set(v, key): ErrDuplicate when the index is unique and already
\* holds an entry of the non-Null value v.
IndexSetFails(i, entries, v) ==
    indexes[i].unique /\ v # Null /\ \E e \in entries : e[1] = v

IndexSet(entries, v, key) == entries \cup {<<v, key>>}

\* Index.Delete(v, key)
IndexDelete(entries, v, key) == entries \ {<<v, key>>}

\* Table.GetDocument / Store.Get
Stored == {k \in Keys : store[k] # NoDoc}

\* info.readOnly, which Insert, Delete, Replace and ReIndex test first.
ReadOnly_Never == FALSE

ReadOnly == info.readOnly

\* Table.Insert: Store.Get(key) returned no error, the key is in the store.
KeyExists_Never(key) == FALSE

KeyExists(key) == store[key] # NoDoc

\* The error of Table.GetDocument: ErrDocumentNotFound when the store has not
\* the key, any other error of Store.Get wrapped.
GetDocumentErr_Wrapped(key) ==
    IF store[key] = NoDoc THEN "failed to fetch document" ELSE None

GetDocumentErr(key) ==
    IF store[key] = NoDoc THEN "ErrDocumentNotFound" ELSE None

\* The value Table.Insert indexes: GetValue, Null when it returns an error.
ValueOrNull(path, d) ==
    IF GetValue(path, d) = Missing THEN Null ELSE GetValue(path, d)

\* What the caller of a Table method observes: the error returned, whether
\* the key of the call was in the store before it, and whether the call
\* changed the store or an index.
TblReturn(op, existed, err) ==
    tblRes' = [op |-> op, err |-> err, allOk |-> tblRes.allOk /\ err = None,
               existed |-> existed,
               changed |-> store' # store \/ idx' # idx]

\* Table.generateKey: the encoding of the primary key of d when the table
\* declares one, the next value of the store's sequence (the docid) otherwise.
generateKey(d) ==
    IF info.pk THEN GetValue("id", d).v ELSE docid + 1

\* Table.Insert(d).  The indexes are ranged over in the order of a Go map,
\* which is any order: when Set fails on an index, any of the other indexes
\* may have been set before.
Insert(d) ==
    IF ReadOnly
    THEN UNCHANGED <<store, idx, docid>> /\ TblReturn("Insert", FALSE, "ReadOnly")
    ELSE IF info.pk /\ GetValue("id", d) = Missing
    THEN UNCHANGED <<store, idx, docid>> /\ TblReturn("Insert", FALSE, "PrimaryKeyMissing")
    ELSE LET key     == generateKey(d)
             failing == {i \in TableIndexes :
                            IndexSetFails(i, idx[i], ValueOrNull(indexes[i].path, d))}
         IN  /\ docid' = IF info.pk THEN docid ELSE key
             /\ IF KeyExists(key)
                THEN UNCHANGED <<store, idx>> /\ TblReturn("Insert", store[key] # NoDoc, "ErrDuplicateDocument")
                ELSE /\ store' = [store EXCEPT ![key] = <<d>>]
                     /\ IF failing = {}
                        THEN /\ idx' = [i \in DOMAIN idx |->
                                          IF i \in TableIndexes
                                          THEN IndexSet(idx[i], ValueOrNull(indexes[i].path, d), key)
                                          ELSE idx[i]]
                             /\ TblReturn("Insert", store[key] # NoDoc, None)
                        ELSE /\ \E done \in SUBSET (TableIndexes \ failing) :
                                  idx' = [i \in DOMAIN idx |->
                                            IF i \in done
                                            THEN IndexSet(idx[i], ValueOrNull(indexes[i].path, d), key)
                                            ELSE idx[i]]
                             /\ TblReturn("Insert", store[key] # NoDoc, "ErrDuplicateDocument")

\* Table.Delete(key): an index whose path the stored document lacks makes
\* Delete return GetValue's error, after any of the other indexes were
\* updated.
Delete(key) ==
    IF ReadOnly
    THEN UNCHANGED <<store, idx>> /\ TblReturn("Delete", store[key] # NoDoc, "ReadOnly")
    ELSE IF GetDocumentErr(key) # None
    THEN UNCHANGED <<store, idx>> /\ TblReturn("Delete", store[key] # NoDoc, GetDocumentErr(key))
    ELSE LET d       == store[key][1]
             failing == {i \in TableIndexes : GetValue(indexes[i].path, d) = Missing}
         IN  IF failing = {}
             THEN /\ idx' = [i \in DOMAIN idx |->
                               IF i \in TableIndexes
                               THEN IndexDelete(idx[i], GetValue(indexes[i].path, d), key)
                               ELSE idx[i]]
                  /\ store' = [store EXCEPT ![key] = NoDoc]
                  /\ TblReturn("Delete", store[key] # NoDoc, None)
             ELSE /\ \E done \in SUBSET (TableIndexes \ failing) :
                       idx' = [i \in DOMAIN idx |->
                                 IF i \in done
                                 THEN IndexDelete(idx[i], GetValue(indexes[i].path, d), key)
                                 ELSE idx[i]]
                  /\ store' = store
                  /\ TblReturn("Delete", store[key] # NoDoc, "ErrFieldNotFound")

\* Table.Replace(key, d) and Table.replace: the old entries are deleted
\* (GetValue's error on the old document is returned), the document is put,
\* and the new entries are set, an index whose path d lacks being skipped.
Replace(key, d) ==
    IF ReadOnly
    THEN UNCHANGED <<store, idx>> /\ TblReturn("Replace", store[key] # NoDoc, "ReadOnly")
    ELSE IF GetDocumentErr(key) # None
    THEN UNCHANGED <<store, idx>> /\ TblReturn("Replace", store[key] # NoDoc, GetDocumentErr(key))
    ELSE LET old      == store[key][1]
             failDel  == {i \in TableIndexes : GetValue(indexes[i].path, old) = Missing}
             deleted  == [i \in DOMAIN idx |->
                            IF i \in TableIndexes
                            THEN IndexDelete(idx[i], GetValue(indexes[i].path, old), key)
                            ELSE idx[i]]
             toSet    == {i \in TableIndexes : GetValue(indexes[i].path, d) # Missing}
             failSet  == {i \in toSet :
                            IndexSetFails(i, deleted[i], GetValue(indexes[i].path, d))}
         IN  IF failDel # {}
             THEN /\ \E done \in SUBSET (TableIndexes \ failDel) :
                       idx' = [i \in DOMAIN idx |-> IF i \in done THEN deleted[i] ELSE idx[i]]
                  /\ store' = store
                  /\ TblReturn("Replace", store[key] # NoDoc, "ErrFieldNotFound")
             ELSE /\ store' = [store EXCEPT ![key] = <<d>>]
                  /\ IF failSet = {}
                     THEN /\ idx' = [i \in DOMAIN idx |->
                                       IF i \in toSet
                                       THEN IndexSet(deleted[i], GetValue(indexes[i].path, d), key)
                                       ELSE deleted[i]]
                          /\ TblReturn("Replace", store[key] # NoDoc, None)
                     ELSE /\ \E done \in SUBSET (toSet \ failSet) :
                               idx' = [i \in DOMAIN idx |->
                                         IF i \in done
                                         THEN IndexSet(deleted[i], GetValue(indexes[i].path, d), key)
                                         ELSE deleted[i]]
                          /\ TblReturn("Replace", store[key] # NoDoc, "ErrDuplicate")

\* Transaction.ReIndex(name), as Table.ReIndex calls it for every index that
\* Table.Indexes returns: the index is emptied and every document of the table
\* is indexed again.  What it does with a document that lacks the path is not
\* fixed: the document is skipped or indexed under Null.
ReIndexEntries(path, nullForMissing) ==
    {<<ValueOrNull(path, store[k][1]), k>> :
        k \in {j \in Stored : nullForMissing \/ GetValue(path, store[j][1]) # Missing}}

\* Index.Set fails on a unique index when two documents carry one value.
ReIndexFails(i, entries) ==
    indexes[i].unique /\ \E e, f \in entries : e # f /\ e[1] = f[1] /\ e[1] # Null

\* Table.ReIndex.  When the reindexing of an index fails, that index is left
\* partly filled and any of the other indexes may have been rebuilt before.
ReIndex ==
    IF ReadOnly
    THEN UNCHANGED <<store, idx>> /\ TblReturn("ReIndex", FALSE, "ReadOnly")
    ELSE \E nullForMissing \in BOOLEAN :
           LET target  == [i \in DOMAIN idx |->
                             ReIndexEntries(indexes[i].path, nullForMissing)]
               failing == {i \in TableIndexes : ReIndexFails(i, target[i])}
           IN  /\ store' = store
               /\ IF failing = {}
                  THEN /\ idx' = [i \in DOMAIN idx |->
                                    IF i \in TableIndexes THEN target[i] ELSE idx[i]]
                       /\ TblReturn("ReIndex", FALSE, None)
                  ELSE /\ \E f \in failing, done \in SUBSET (TableIndexes \ failing) :
                            \E part \in (SUBSET target[f]) \ {{}, target[f]} :
                               /\ ~ReIndexFails(f, part)
                               /\ idx' = [i \in DOMAIN idx |->
                                            IF i \in done THEN target[i]
                                            ELSE IF i = f THEN part ELSE idx[i]]
                       /\ TblReturn("ReIndex", FALSE, "ErrDuplicate")

TableInsert(d) ==
    /\ info.pk \/ docid < MaxKey
    /\ Insert(d)
    /\ UNCHANGED <<info, indexes, txVars, runVars, seqVars, insVars, valVars, ddlVars, qryVars,
                   stmVars>>

TableDelete(key) ==
    Delete(key) /\ UNCHANGED <<info, indexes, docid, txVars, runVars, seqVars, insVars, valVars, ddlVars, qryVars,
                   stmVars>>

TableReplace(key, d) ==
    Replace(key, d) /\ UNCHANGED <<info, indexes, docid, txVars, runVars, seqVars, insVars, valVars, ddlVars, qryVars,
                   stmVars>>

TableReIndex ==
    ReIndex /\ UNCHANGED <<info, indexes, docid, txVars, runVars, seqVars, insVars, valVars, ddlVars, qryVars,
                   stmVars>>

\* A table, read-only or not, with no index, one index or two indexes, on
\* the same path or on two paths; it is empty or holds one document, which
\* every index has an entry of.
InitialDocuments == {<<>>, <<[id |-> IntegerValue(1), a |-> IntegerValue(1)]>>}

InitTable ==
    /\ info \in [readOnly : BOOLEAN, pk : {TRUE}]
    /\ docid = 0
    /\ indexes \in SeqsUpTo(IndexConfigs, 2)
    /\ \E first \in InitialDocuments : store = [k \in Keys |-> IF k = 1 THEN first ELSE NoDoc]
    /\ idx = [i \in 1..Len(indexes) |->
                {<<ValueOrNull(indexes[i].path, store[k][1]), k>> : k \in Stored}]
    /\ tblRes = [op |-> None, err |-> None, allOk |-> TRUE,
                 existed |-> FALSE, changed |-> FALSE]
    /\ IdleTx /\ IdleRun /\ IdleIns /\ IdleSeq /\ IdleVal /\ IdleDdl
    /\ IdleRes /\ IdleStr /\ IdlePrj /\ IdleEng /\ IdleStm

NextTable ==
    \/ \E d \in Documents : TableInsert(d)
    \/ \E key \in Keys : TableDelete(key)
    \/ \E key \in Keys, d \in Documents : TableReplace(key, d)
    \/ TableReIndex

SpecTable == InitTable /\ [][NextTable]_vars

\* Table.Truncate: t.Store.Truncate(), which deletes every key of the
\* table's store; neither info nor an index is looked at.
Truncate ==
    /\ store' = [k \in Keys |-> NoDoc]
    /\ idx' = idx
    /\ TblReturn("Truncate", FALSE, None)

TableTruncate ==
    Truncate /\ UNCHANGED <<info, indexes, docid, txVars, runVars, seqVars,
                            insVars, valVars, ddlVars, qryVars, stmVars>>

\* SpecTruncate: the callers of SpecTable, and those of Table.Truncate, on a
\* table with at most one index.
InitTruncate == InitTable /\ Len(indexes) <= 1

NextTruncate == NextTable \/ TableTruncate

SpecTruncate == InitTruncate /\ [][NextTruncate]_vars

(***************************************************************************)
(* C38: no method of Table (Insert, Replace, Delete, ReIndex, Truncate)    *)
(* changes the documents of a table whose info says readOnly.              *)
(***************************************************************************)
C38_ReadOnlyTableKeepsDocuments ==
    [][info.readOnly => store' = store]_vars

(***************************************************************************)
(* C39: after a successful Table.Truncate the table holds no document and  *)
(* no index of the table holds an entry.                                   *)
(***************************************************************************)
C39_TruncateEmptiesIndexes ==
    (tblRes.op = "Truncate" /\ tblRes.err = None) =>
        /\ Stored = {}
        /\ \A i \in TableIndexes : idx[i] = {}

(***************************************************************************)
(* C1: after any sequence of successful Insert, Replace and Delete calls,  *)
(* every index of the table (two indexes of one path included) holds, for  *)
(* every document d stored under a key k, the entry (value of d at the     *)
(* indexed path, or Null when d lacks the path; k), and no other entry.    *)
(***************************************************************************)
C1_ExpectedEntries(path) == {<<ValueOrNull(path, store[k][1]), k>> : k \in Stored}

C1_IndexesMatchTable ==
    tblRes.allOk =>
        \A i \in 1..Len(indexes) : idx[i] = C1_ExpectedEntries(indexes[i].path)

(***************************************************************************)
(* C11: Table.Insert of a document whose storage key is already in the     *)
(* store fails with ErrDuplicateDocument and changes neither the store nor *)
(* any index.                                                              *)
(***************************************************************************)
C11_DuplicateKeyRejected ==
    (tblRes.op = "Insert" /\ tblRes.existed /\ ~info.readOnly)
    => (tblRes.err = "ErrDuplicateDocument" /\ ~tblRes.changed)

\* Keys 1 and 2 are stored, no index is unique, and an Insert has just failed
\* as a duplicate: the failure is that of the key.
C11_Witness ==
    /\ tblRes.op = "Insert"
    /\ tblRes.err = "ErrDuplicateDocument"
    /\ {1, 2} \subseteq Stored
    /\ Len(indexes) > 0
    /\ \A i \in 1..Len(indexes) : ~indexes[i].unique /\ idx[i] # {}

(***************************************************************************)
(* C13: for a stored document that Table.Insert accepted, with or without  *)
(* a value at each indexed path, Table.Delete(key) succeeds, the key is    *)
(* then absent from the store and no index holds an entry for the key.     *)
(* The document is one whose index entries are those Insert puts.          *)
(***************************************************************************)
C13_AsInserted(k) ==
    /\ store[k] # NoDoc
    /\ info.pk => GetValue("id", store[k][1]) = IntegerValue(k)
    /\ \A i \in TableIndexes :
          {e \in idx[i] : e[2] = k} = {<<ValueOrNull(indexes[i].path, store[k][1]), k>>}

C13_DeleteSucceeds ==
    [][\A k \in Keys :
          (~info.readOnly /\ C13_AsInserted(k) /\ TableDelete(k))
          => (/\ tblRes'.err = None
              /\ store'[k] = NoDoc
              /\ \A i \in TableIndexes : \A e \in idx'[i] : e[2] # k)]_vars

C15_ReadOnlyRejected ==
    (info.readOnly /\ tblRes.op \in {"Insert", "Replace", "Delete", "ReIndex"})
    => (tblRes.err = "ReadOnly" /\ ~tblRes.changed)

\* A ReIndex has just failed on a read-only table that holds a document and
\* an index entry.
C15_Witness ==
    /\ info.readOnly
    /\ Stored # {}
    /\ \E i \in 1..Len(indexes) : idx[i] # {}
    /\ tblRes.op = "ReIndex"
    /\ tblRes.err = "ReadOnly"

(***************************************************************************)
(* An INSERT statement run by Query.Run.  InsertStmt inserts its documents *)
(* one after the other with Table.Insert and returns the first error.  In  *)
(* auto-commit mode Query.Run runs the statement in a transaction of its   *)
(* own, which it rolls back when the statement fails and commits when it   *)
(* succeeds; in a transaction of the caller the caller ends it.  The store *)
(* and the indexes are those the transaction sees, committed is what the   *)
(* engine holds outside of it.                                             *)
(***************************************************************************)
Snapshot == [store |-> store, idx |-> idx, docid |-> docid]

\* Query.Run reaches the statement: db.Begin in auto-commit mode.
StmtBegin(n) ==
    /\ insStmt.pc \in {"idle", "returned"}
    /\ insStmt.pc = "returned" => insStmt.autoCommit
    /\ insStmt' = [pc |-> "running", autoCommit |-> insStmt.autoCommit, left |-> n,
                inserted |-> 0, before |-> Cardinality(Stored), err |-> None]
    /\ UNCHANGED <<tblVars, committed, scanStore, scanned, txVars, runVars, seqVars, valVars, ddlVars, qryVars,
                   stmVars>>

\* One turn of the loop of InsertStmt.insertRecords: t.Insert(r), whose error
\* ends the statement.
StmtInsert(d) ==
    /\ insStmt.pc = "running"
    /\ info.pk \/ docid < MaxKey
    /\ Insert(d)
    /\ insStmt' = IF tblRes'.err # None
               THEN [insStmt EXCEPT !.pc = "failed", !.err = tblRes'.err]
               ELSE [insStmt EXCEPT !.left = @ - 1, !.inserted = @ + 1,
                                 !.pc = IF insStmt.left = 1 THEN "done" ELSE "running"]
    /\ UNCHANGED <<info, indexes, committed, scanStore, scanned, txVars, runVars, seqVars, valVars, ddlVars, qryVars,
                   stmVars>>

\* Query.Run, the statement failed in auto-commit mode: q.tx.Rollback().
StmtRollback ==
    /\ insStmt.pc = "failed" /\ insStmt.autoCommit
    /\ store' = committed.store /\ idx' = committed.idx /\ docid' = committed.docid
    /\ insStmt' = [insStmt EXCEPT !.pc = "returned"]
    /\ UNCHANGED <<info, indexes, tblRes, committed, scanStore, scanned, txVars, runVars, seqVars, valVars, ddlVars, qryVars,
                   stmVars>>

\* The statement succeeded in auto-commit mode: its transaction is committed,
\* by Query.Run before the next statement or by Result.Close after the last;
\* when Commit fails the transaction is discarded.
StmtCommit(ok) ==
    /\ insStmt.pc = "done" /\ insStmt.autoCommit
    /\ IF ok
       THEN committed' = Snapshot /\ UNCHANGED <<store, idx, docid>>
       ELSE /\ store' = committed.store /\ idx' = committed.idx
            /\ docid' = committed.docid /\ UNCHANGED committed
    /\ insStmt' = [insStmt EXCEPT !.pc = "returned",
                            !.err = IF ok THEN None ELSE "CommitFailed"]
    /\ UNCHANGED <<info, indexes, tblRes, scanStore, scanned, txVars, runVars, seqVars, valVars, ddlVars, qryVars,
                   stmVars>>

\* Query.Run in a transaction of the caller: the result or the error is
\* returned and the transaction stays open.
StmtReturn ==
    /\ insStmt.pc \in {"failed", "done"} /\ ~insStmt.autoCommit
    /\ insStmt' = [insStmt EXCEPT !.pc = "returned"]
    /\ UNCHANGED <<tblVars, committed, scanStore, scanned, txVars, runVars, seqVars, valVars, ddlVars, qryVars,
                   stmVars>>

\* The caller ends its transaction after the statement: Commit or Rollback.
CallerEnd(commit) ==
    /\ insStmt.pc = "returned" /\ ~insStmt.autoCommit
    /\ IF commit
       THEN committed' = Snapshot /\ UNCHANGED <<store, idx, docid>>
       ELSE /\ store' = committed.store /\ idx' = committed.idx
            /\ docid' = committed.docid /\ UNCHANGED committed
    /\ insStmt' = [insStmt EXCEPT !.pc = "ended"]
    /\ UNCHANGED <<info, indexes, tblRes, scanStore, scanned, txVars, runVars, seqVars, valVars, ddlVars, qryVars,
                   stmVars>>

\* An empty table, with or without a primary key, and its indexes.
InitInsert ==
    /\ info \in [readOnly : {FALSE}, pk : BOOLEAN]
    /\ indexes \in SeqsUpTo(IndexConfigs, 2)
    /\ store = [k \in Keys |-> NoDoc]
    /\ idx = [i \in 1..Len(indexes) |-> {}]
    /\ docid = 0
    /\ tblRes = [op |-> None, err |-> None, allOk |-> TRUE,
                 existed |-> FALSE, changed |-> FALSE]
    /\ committed = Snapshot
    /\ \E autoCommit \in BOOLEAN :
          insStmt = [pc |-> "idle", autoCommit |-> autoCommit, left |-> 0,
                  inserted |-> 0, before |-> 0, err |-> None]
    /\ scanStore = {} /\ scanned = <<>>
    /\ IdleTx /\ IdleRun /\ IdleSeq /\ IdleVal /\ IdleDdl
    /\ IdleRes /\ IdleStr /\ IdlePrj /\ IdleEng /\ IdleStm

NextInsert ==
    \/ \E n \in 1..MaxDocs : StmtBegin(n)
    \/ \E d \in Documents : StmtInsert(d)
    \/ StmtRollback
    \/ \E ok \in BOOLEAN : StmtCommit(ok)
    \/ StmtReturn
    \/ \E commit \in BOOLEAN : CallerEnd(commit)

SpecInsert == InitInsert /\ [][NextInsert]_vars

(***************************************************************************)
(* C12: the table u has no primary key and a unique index on a; the one    *)
(* statement INSERT INTO u VALUES {a: 1}, {a: 1}, run on the empty table,  *)
(* fails with DuplicateDocument on its second document, and when Query.Run *)
(* has returned the table holds exactly one document.                      *)
(***************************************************************************)
C12_SecondInsertFailed ==
    /\ ~info.pk
    /\ indexes = <<[path |-> "a", unique |-> TRUE]>>
    /\ insStmt.pc = "returned"
    /\ insStmt.before = 0
    /\ insStmt.inserted = 1
    /\ insStmt.err = "ErrDuplicateDocument"

C12_OneDocumentAfterDuplicate ==
    C12_SecondInsertFailed => Cardinality(Stored) = 1

(***************************************************************************)
(* A table without primary key and Table.Iterate.  The key of a document   *)
(* is its docid written by binary.PutUvarint: VarintBits bits of the value *)
(* per byte, low bits first, each byte but the last with the continuation  *)
(* bit set.  The store iterates its keys in the order of bytes.Compare.    *)
(***************************************************************************)
Continuation == 2 ^ VarintBits

RECURSIVE PutUvarint(_)
PutUvarint(x) ==
    IF x >= Continuation
    THEN <<(x % Continuation) + Continuation>> \o PutUvarint(x \div Continuation)
    ELSE <<x>>

\* bytes.Compare(a, b) < 0
RECURSIVE BytesLess(_, _)
BytesLess(a, b) ==
    IF b = <<>> THEN FALSE
    ELSE IF a = <<>> THEN TRUE
    ELSE IF a[1] # b[1] THEN a[1] < b[1]
    ELSE BytesLess(Tail(a), Tail(b))

\* The iterator of the store: Seek(nil), then Next until it is not Valid.
RECURSIVE IterateFrom(_)
IterateFrom(items) ==
    IF items = {} THEN <<>>
    ELSE LET first == CHOOSE e \in items :
                         \A f \in items \ {e} : BytesLess(e[1], f[1])
         IN  <<first[2]>> \o IterateFrom(items \ {first})

\* Table.Insert in a table without primary key: generateKey takes the next
\* docid from Store.NextSequence and the document is put under its varint.
ScanInsert ==
    /\ docid < MaxDocid
    /\ docid' = docid + 1
    /\ scanStore' = scanStore \cup {<<PutUvarint(docid + 1), docid + 1>>}
    /\ UNCHANGED <<info, indexes, store, idx, tblRes, committed, insStmt, scanned,
                   txVars, runVars, seqVars, valVars, ddlVars, qryVars,
                   stmVars>>

\* Table.Delete of a stored document.
ScanDelete(e) ==
    /\ scanStore' = scanStore \ {e}
    /\ UNCHANGED <<tblVars, committed, insStmt, scanned, txVars, runVars, seqVars, valVars, ddlVars, qryVars,
                   stmVars>>

\* Table.Iterate: fn is called with every document the iterator passes.
ScanIterate ==
    /\ scanned' = IterateFrom(scanStore)
    /\ UNCHANGED <<tblVars, committed, insStmt, scanStore, txVars, runVars, seqVars, valVars, ddlVars, qryVars,
                   stmVars>>

InitScan ==
    /\ scanStore = {} /\ scanned = <<>>
    /\ committed = None /\ insStmt = None
    /\ IdleTx /\ IdleRun /\ IdleTbl /\ IdleSeq /\ IdleVal /\ IdleDdl
    /\ IdleRes /\ IdleStr /\ IdlePrj /\ IdleEng /\ IdleStm

NextScan ==
    \/ ScanInsert
    \/ \E e \in scanStore : ScanDelete(e)
    \/ ScanIterate

SpecScan == InitScan /\ [][NextScan]_vars

(***************************************************************************)
(* C16: iterating a table without primary key yields the documents in      *)
(* docid order, the order of their insertion, whatever their number.       *)
(***************************************************************************)
C16_IterateInDocidOrder ==
    \A i, j \in DOMAIN scanned : i < j => scanned[i] < scanned[j]

(***************************************************************************)
(* Field constraints.  A document of this table has one top-level field a, *)
(* which is absent, a scalar, a document with the one field b, or an array *)
(* with at most one element; a document is written as the kinds of a, of   *)
(* a.b and of a[0], "missing" for what the document has not.  A constraint *)
(* is on the path a, a.b or a[0]; it may declare the type integer, NOT     *)
(* NULL and a default value, a text.                                       *)
(***************************************************************************)
Scalars == {"null", "integer", "double", "text"}

ConstrainedDocuments ==
    [a : Scalars \cup {"missing"}, b : {"missing"}, e : {"missing"}]
    \cup [a : {"document"}, b : Scalars \cup {"missing"}, e : {"missing"}]
    \cup [a : {"array"}, b : {"missing"}, e : Scalars \cup {"missing"}]

\* document.PathFragment
Field(name) == [FieldName |-> name, ArrayIndex |-> 0]
Index(i)    == [FieldName |-> "", ArrayIndex |-> i]

ConstraintPaths ==
    {<<Field("a")>>, <<Field("a"), Field("b")>>, <<Field("a"), Index(0)>>}

NoType == "none"

\* FieldConstraint; DefaultValue is <<>> when no default is declared.
FieldConstraints ==
    [Path : ConstraintPaths, Type : {NoType, "integer"}, IsNotNull : BOOLEAN,
     DefaultValue : {<<>>, <<"text">>}]

\* Path.GetValue(d): "missing" stands for ErrFieldNotFound, ErrValueNotFound.
PathGetValue(p, d) ==
    IF Len(p) = 1 THEN d.a
    ELSE IF p[2].FieldName # ""
    THEN IF d.a = "document" THEN d.b ELSE "missing"
    ELSE IF d.a = "array" THEN d.e ELSE "missing"

\* getParentValue: the document itself for a path of one fragment, else the
\* value at the path without its last fragment, or GetValue's error.
getParentValue(d, p) ==
    IF Len(p) = 1 THEN "document" ELSE PathGetValue(SubSeq(p, 1, Len(p) - 1), d)

\* Value.CastAs(integer): a double is truncated, a Null stays Null, a text
\* that is not a number and a document or an array cannot be cast.
CastFails(kind) == kind \in {"text", "document", "array"}

CastAs(kind) == IF kind = "double" THEN "integer" ELSE kind

\* buf.Replace: the value at the path is replaced.
ReplaceAt(d, p, kind) ==
    IF Len(p) = 1 THEN [d EXCEPT !.a = kind]
    ELSE IF p[2].FieldName # "" THEN [d EXCEPT !.b = kind]
    ELSE [d EXCEPT !.e = kind]

Valid(d) == [err |-> None, d |-> d]
Invalid(err, d) == [err |-> err, d |-> d]

\* validateConstraint(d, c)
validateConstraint(d, c) ==
    LET parent == getParentValue(d, c.Path)
        last   == c.Path[Len(c.Path)]
        v      == PathGetValue(c.Path, d)
        convert ==
            IF c.Type = NoType THEN Valid(d)
            ELSE IF CastFails(v) THEN Invalid("TypeMismatch", d)
            ELSE Valid(ReplaceAt(d, c.Path, CastAs(v)))
    IN  IF parent = "missing" THEN Invalid("ErrFieldNotFound", d)
        ELSE IF parent = "document"
        THEN IF last.FieldName = ""
             THEN IF c.IsNotNull THEN Invalid("NotNull", d) ELSE Valid(d)
             ELSE IF v = "missing"
             THEN IF c.IsNotNull THEN Invalid("NotNull", d) ELSE Valid(d)
             ELSE IF v = "null" /\ c.IsNotNull THEN Invalid("NotNull", d)
             ELSE convert
        ELSE IF parent = "array"
        THEN IF last.FieldName # "" THEN Valid(d)
             ELSE IF v = "missing"
             THEN IF c.IsNotNull THEN Invalid("NotNull", d) ELSE Valid(d)
             ELSE convert
        ELSE Valid(d)

\* Table.ValidateConstraints: the constraints in the order of their
\* declaration, the first error returned.
RECURSIVE ValidateFrom(_, _)
ValidateFrom(d, i) ==
    IF i > Len(fcs) THEN Valid(d)
    ELSE LET r == validateConstraint(d, fcs[i])
         IN  IF r.err # None THEN r ELSE ValidateFrom(r.d, i + 1)

ValidateConstraints(d) == ValidateFrom(d, 1)

\* Table.Insert on the table with constraints: the document returned by
\* ValidateConstraints is put in the store under a new docid.
ValInsert(d) ==
    /\ vStore = {}
    /\ LET r == ValidateConstraints(d)
       IN  /\ vRes' = [op |-> "Insert", err |-> r.err, d |-> d]
           /\ vStore' = IF r.err = None THEN {r.d} ELSE vStore
    /\ UNCHANGED <<fcs, txVars, runVars, tblVars, insVars, seqVars, ddlVars, qryVars,
                   stmVars>>

\* Table.Replace of the stored document: the document returned by
\* ValidateConstraints replaces it.
ValReplace(d) ==
    /\ vStore # {}
    /\ LET r == ValidateConstraints(d)
       IN  /\ vRes' = [op |-> "Replace", err |-> r.err, d |-> d]
           /\ vStore' = IF r.err = None THEN {r.d} ELSE vStore
    /\ UNCHANGED <<fcs, txVars, runVars, tblVars, insVars, seqVars, ddlVars, qryVars,
                   stmVars>>

\* Table.Truncate
ValTruncate ==
    /\ vStore # {}
    /\ vStore' = {}
    /\ vRes' = [vRes EXCEPT !.op = "Truncate", !.err = None]
    /\ UNCHANGED <<fcs, txVars, runVars, tblVars, insVars, seqVars, ddlVars, qryVars,
                   stmVars>>

InitValidate ==
    /\ fcs \in SeqsUpTo(FieldConstraints, MaxConstraints) \ {<<>>}
    /\ vStore = {}
    /\ vRes = [op |-> None, err |-> None, d |-> [a |-> "missing", b |-> "missing", e |-> "missing"]]
    /\ IdleTx /\ IdleRun /\ IdleTbl /\ IdleIns /\ IdleSeq /\ IdleDdl
    /\ IdleRes /\ IdleStr /\ IdlePrj /\ IdleEng /\ IdleStm

NextValidate ==
    \/ \E d \in ConstrainedDocuments : ValInsert(d)
    \/ \E d \in ConstrainedDocuments : ValReplace(d)
    \/ ValTruncate

SpecValidate == InitValidate /\ [][NextValidate]_vars

(***************************************************************************)
(* C17: when no constraint of the table is NOT NULL (nor declares a        *)
(* default), a document in which the path of every constraint is absent,   *)
(* the path a.b of a document without a included, is accepted by           *)
(* Table.Insert and stored as it is.                                       *)
(***************************************************************************)
C17_AllAbsent(d) ==
    \A i \in 1..Len(fcs) : PathGetValue(fcs[i].Path, d) = "missing"

C17_AbsentPathAccepted ==
    (/\ vRes.op = "Insert"
     /\ \A i \in 1..Len(fcs) : ~fcs[i].IsNotNull /\ fcs[i].DefaultValue = <<>>
     /\ C17_AllAbsent(vRes.d))
    => (vRes.err = None /\ vStore = {vRes.d})

(***************************************************************************)
(* C18: when a constraint of the table is NOT NULL, its last fragment a    *)
(* field name or an array index, and its path is absent from the document  *)
(* or holds Null, Table.Insert fails and stores nothing.                   *)
(***************************************************************************)
C18_NotNullRejects ==
    (/\ vRes.op = "Insert"
     /\ \E i \in 1..Len(fcs) :
           /\ fcs[i].IsNotNull
           /\ PathGetValue(fcs[i].Path, vRes.d) \in {"missing", "null"})
    => (vRes.err # None /\ vStore = {})

(***************************************************************************)
(* C19: when the one constraint of the table declares a default value and  *)
(* the document lacks its path, the document that Table.Insert stores has  *)
(* the default value at that path.                                         *)
(***************************************************************************)
C19_DefaultAssigned ==
    (/\ vRes.op = "Insert"
     /\ vRes.err = None
     /\ Len(fcs) = 1
     /\ fcs[1].DefaultValue # <<>>
     /\ PathGetValue(fcs[1].Path, vRes.d) = "missing")
    => \A d \in vStore : <<PathGetValue(fcs[1].Path, d)>> = fcs[1].DefaultValue

(***************************************************************************)
(* CREATE TABLE, CREATE INDEX, CREATE SEQUENCE.  The catalog holds the     *)
(* names of the tables and of the sequences and, for every index, its      *)
(* table, its path, an ordinal among the indexes of that path, its name    *)
(* ("none" when the catalog named it) and whether ReIndex has built it.    *)
(* CreateTableStmt.Run passes no index name to Catalog.CreateIndex: the    *)
(* catalog names the index, and when the name it would give is taken it    *)
(* either fails with AlreadyExists or picks a name that is free.           *)
(***************************************************************************)
TableNames == {"t", "u"}
IndexNames == {"i"}
SequenceNames == {"s"}

\* stmt.Info.FieldConstraints, as far as CreateTableStmt.Run reads them.
TableConstraints ==
    SeqsUpTo([Path : {"a", "b"}, IsUnique : BOOLEAN], MaxConstraints)

IndexesOf(cat, name, path) ==
    {i \in cat.indexes : i.table = name /\ i.path = path}

\* Catalog.CreateTable(tx, name, info)
CreateTableErr(cat, name) ==
    IF name \in cat.tables THEN "AlreadyExists" ELSE None

CreateTable(cat, name) ==
    IF CreateTableErr(cat, name) # None THEN cat
    ELSE [cat EXCEPT !.tables = @ \cup {name}]

\* Catalog.CreateIndex(tx, info) of an index without a name.
CreateIndexErr(cat, name, path, fresh) ==
    IF name \notin cat.tables THEN "NotFound"
    ELSE IF IndexesOf(cat, name, path) # {} /\ ~fresh THEN "AlreadyExists"
    ELSE None

CreateIndex(cat, name, path, fresh) ==
    IF CreateIndexErr(cat, name, path, fresh) # None THEN cat
    ELSE [cat EXCEPT !.indexes = @ \cup
            {[table |-> name, path |-> path,
              n |-> Cardinality(IndexesOf(cat, name, path)) + 1,
              name |-> None, built |-> FALSE]}]

\* The loop of CreateTableStmt.Run over the constraints from the i-th on: err
\* is assigned by every CreateIndex and returned when it is not nil.
RECURSIVE CreateUniqueIndexes(_, _, _, _, _, _)
CreateUniqueIndexes(cat, err, name, fc, i, fresh) ==
    IF i > Len(fc) THEN [cat |-> cat, err |-> err]
    ELSE IF ~fc[i].IsUnique
    THEN CreateUniqueIndexes(cat, err, name, fc, i + 1, fresh)
    ELSE LET e == CreateIndexErr(cat, name, fc[i].Path, fresh)
         IN  IF e # None THEN [cat |-> cat, err |-> e]
             ELSE CreateUniqueIndexes(CreateIndex(cat, name, fc[i].Path, fresh),
                                      e, name, fc, i + 1, fresh)

\* Run returns before the loop, without error, only for AlreadyExists with
\* IF NOT EXISTS.
ReturnsBeforeLoop(ifNotExists, err) == ifNotExists /\ err = "AlreadyExists"

\* CreateTableStmt.Run
CreateTableStmtRun(name, ifNotExists, fc, fresh) ==
    LET err == CreateTableErr(catalog, name)
        cat == CreateTable(catalog, name)
    IN  IF ReturnsBeforeLoop(ifNotExists, err)
        THEN [cat |-> cat, err |-> None]
        ELSE CreateUniqueIndexes(cat, err, name, fc, 1, fresh)

NoDdlRes ==
    [op |-> None, err |-> None, ifNotExists |-> FALSE,
     existed |-> FALSE, unique |-> FALSE, created |-> 0,
     changed |-> FALSE, reindexed |-> FALSE, seen |-> {}]

\* What a CREATE statement leaves in ddlRes: what it returned, what it did
\* to the catalog, and the kinds of statement that so far met, with IF NOT
\* EXISTS, a name that existed.
DdlReturn(op, r, ifNotExists, existed, unique) ==
    /\ catalog' = r.cat
    /\ ddlRes' = [op |-> op, err |-> r.err,
                  ifNotExists |-> ifNotExists,
                  existed |-> existed,
                  unique |-> unique,
                  created |-> Cardinality(r.cat.indexes \ catalog.indexes),
                  changed |-> r.cat # catalog,
                  reindexed |-> r.reindexed,
                  seen |-> IF ifNotExists /\ existed
                           THEN ddlRes.seen \cup {op} ELSE ddlRes.seen]

DdlCreateTable(name, ifNotExists, fc, fresh) ==
    /\ \A i \in 1..Len(fc) :
          Cardinality(IndexesOf(catalog, name, fc[i].Path)) < MaxIndexes
    /\ LET r == CreateTableStmtRun(name, ifNotExists, fc, fresh)
       IN  DdlReturn("CreateTable", [cat |-> r.cat, err |-> r.err,
                                     reindexed |-> FALSE],
                     ifNotExists, name \in catalog.tables,
                     \E i \in 1..Len(fc) : fc[i].IsUnique)
    /\ UNCHANGED <<txVars, runVars, tblVars, insVars, valVars, seqVars, qryVars,
                   stmVars>>

\* Catalog.CreateIndex(tx, info) of an index with a name.
CreateNamedIndexErr(cat, iname, name) ==
    IF \E i \in cat.indexes : i.name = iname THEN "AlreadyExists"
    ELSE IF name \notin cat.tables THEN "NotFound"
    ELSE None

CreateNamedIndex(cat, iname, name, path) ==
    IF CreateNamedIndexErr(cat, iname, name) # None THEN cat
    ELSE [cat EXCEPT !.indexes = @ \cup
            {[table |-> name, path |-> path,
              n |-> Cardinality(IndexesOf(cat, name, path)) + 1,
              name |-> iname, built |-> FALSE]}]

\* Catalog.ReIndex(tx, indexName): the index is rebuilt from its table, or
\* the rebuild fails and the index stays as it was.
CatalogReIndex(cat, iname, ok) ==
    IF ~ok THEN cat
    ELSE [cat EXCEPT !.indexes =
            {IF i.name = iname THEN [i EXCEPT !.built = TRUE] ELSE i : i \in @}]

\* The test of IfNotExists in the three Run methods: the AlreadyExists error
\* of the catalog is swallowed.
Swallowed_Never(ifNotExists, err) == FALSE

Swallowed(ifNotExists, err) == ifNotExists /\ err = "AlreadyExists"

\* CreateIndexStmt.Run
CreateIndexStmtRun(iname, name, path, ifNotExists, ok) ==
    LET err == CreateNamedIndexErr(catalog, iname, name)
        cat == CreateNamedIndex(catalog, iname, name, path)
    IN  IF Swallowed(ifNotExists, err)
        THEN [cat |-> cat, err |-> None, reindexed |-> FALSE]
        ELSE IF err # None
        THEN [cat |-> cat, err |-> err, reindexed |-> FALSE]
        ELSE [cat |-> CatalogReIndex(cat, iname, ok),
              err |-> IF ok THEN None ELSE "ReIndexFailed",
              reindexed |-> TRUE]

DdlCreateIndex(iname, name, path, ifNotExists, ok) ==
    /\ Cardinality(IndexesOf(catalog, name, path)) < MaxIndexes
    /\ DdlReturn("CreateIndex",
                 CreateIndexStmtRun(iname, name, path, ifNotExists, ok),
                 ifNotExists, \E i \in catalog.indexes : i.name = iname, FALSE)
    /\ UNCHANGED <<txVars, runVars, tblVars, insVars, valVars, seqVars, qryVars,
                   stmVars>>

\* Catalog.CreateSequence(tx, name, info)
CreateSequenceErr(cat, sname) ==
    IF sname \in cat.sequences THEN "AlreadyExists" ELSE None

CreateSequence(cat, sname) ==
    IF CreateSequenceErr(cat, sname) # None THEN cat
    ELSE [cat EXCEPT !.sequences = @ \cup {sname}]

\* CreateSequenceStmt.Run
CreateSequenceStmtRun(sname, ifNotExists) ==
    LET err == CreateSequenceErr(catalog, sname)
        cat == CreateSequence(catalog, sname)
    IN  IF Swallowed(ifNotExists, err)
        THEN [cat |-> cat, err |-> None, reindexed |-> FALSE]
        ELSE [cat |-> cat, err |-> err, reindexed |-> FALSE]

DdlCreateSequence(sname, ifNotExists) ==
    /\ DdlReturn("CreateSequence", CreateSequenceStmtRun(sname, ifNotExists),
                 ifNotExists, sname \in catalog.sequences, FALSE)
    /\ UNCHANGED <<txVars, runVars, tblVars, insVars, valVars, seqVars, qryVars,
                   stmVars>>

\* Catalog.DropSequence(tx, name)
DdlDropSequence(sname) ==
    /\ catalog' = [catalog EXCEPT !.sequences = @ \ {sname}]
    /\ ddlRes' = [NoDdlRes EXCEPT !.op = "DropSequence",
                                  !.err = IF sname \in catalog.sequences
                                          THEN None ELSE "NotFound",
                                  !.seen = ddlRes.seen]
    /\ UNCHANGED <<txVars, runVars, tblVars, insVars, valVars, seqVars, qryVars,
                   stmVars>>

\* Catalog.DropTable(tx, name): the table and the indexes that refer to it.
DdlDropTable(name) ==
    /\ catalog' = [catalog EXCEPT
                       !.tables  = @ \ {name},
                       !.indexes = {i \in @ : i.table # name}]
    /\ ddlRes' = [NoDdlRes EXCEPT !.op = "DropTable",
                                  !.err = IF name \in catalog.tables
                                          THEN None ELSE "NotFound",
                                  !.seen = ddlRes.seen]
    /\ UNCHANGED <<txVars, runVars, tblVars, insVars, valVars, seqVars, qryVars,
                   stmVars>>

InitDdl ==
    /\ catalog = [tables |-> {}, indexes |-> {}, sequences |-> {}]
    /\ ddlRes = NoDdlRes
    /\ IdleTx /\ IdleRun /\ IdleTbl /\ IdleIns /\ IdleVal /\ IdleSeq
    /\ IdleRes /\ IdleStr /\ IdlePrj /\ IdleEng /\ IdleStm

NextDdl ==
    \/ \E name \in TableNames, ifNotExists \in BOOLEAN, fc \in TableConstraints,
          fresh \in BOOLEAN : DdlCreateTable(name, ifNotExists, fc, fresh)
    \/ \E name \in TableNames : DdlDropTable(name)

SpecDdl == InitDdl /\ [][NextDdl]_vars

\* The three CREATE statements and the two drops, on one table.
NextCreate ==
    \/ \E ifNotExists \in BOOLEAN, fc \in TableConstraints, fresh \in BOOLEAN :
          DdlCreateTable("t", ifNotExists, fc, fresh)
    \/ DdlDropTable("t")
    \/ \E iname \in IndexNames, path \in {"a", "b"},
          ifNotExists \in BOOLEAN, ok \in BOOLEAN :
          DdlCreateIndex(iname, "t", path, ifNotExists, ok)
    \/ \E sname \in SequenceNames, ifNotExists \in BOOLEAN :
          DdlCreateSequence(sname, ifNotExists)
    \/ \E sname \in SequenceNames : DdlDropSequence(sname)

SpecCreate == InitDdl /\ [][NextCreate]_vars

(***************************************************************************)
(* C20: CreateTableStmt.Run without IF NOT EXISTS on the name of a table   *)
(* that exists returns AlreadyExists and creates no index, whatever the    *)
(* constraints, UNIQUE ones included.                                      *)
(***************************************************************************)
C20_ExistingTableRejected ==
    (ddlRes.op = "CreateTable" /\ ~ddlRes.ifNotExists /\ ddlRes.existed)
    => (ddlRes.err = "AlreadyExists" /\ ddlRes.created = 0)

(***************************************************************************)
(* C21: CREATE TABLE, CREATE INDEX and CREATE SEQUENCE with IF NOT EXISTS  *)
(* on a name that exists return no error and leave the catalog as it was:  *)
(* no index is created, UNIQUE constraints or not, and ReIndex is not run. *)
(***************************************************************************)
C21_IfNotExistsIsNoOp ==
    (/\ ddlRes.op \in {"CreateTable", "CreateIndex", "CreateSequence"}
     /\ ddlRes.ifNotExists
     /\ ddlRes.existed)
    => (/\ ddlRes.err = None
        /\ ~ddlRes.changed
        /\ ddlRes.created = 0
        /\ ~ddlRes.reindexed)

\* Each of the three statements has met a name that existed, the last one a
\* CREATE TABLE IF NOT EXISTS with a UNIQUE constraint.
C21_Witness ==
    /\ ddlRes.seen = {"CreateTable", "CreateIndex", "CreateSequence"}
    /\ ddlRes.op = "CreateTable" /\ ddlRes.ifNotExists /\ ddlRes.existed
    /\ ddlRes.unique

(***************************************************************************)
(* Sequence.  Integers are two's complement of IntBits bits, so that       *)
(* *s.CurrentValue + s.Info.IncrementBy wraps as int64 does.  An optional  *)
(* value (a nil pointer, an absent field) is <<>> or <<v>>.                *)
(*   seq    : the Sequence object, CurrentValue and Cached                 *)
(*   lease  : the seq field of the sequence's row of __genji_sequence, as  *)
(*            committed and as the open transaction sees it; faults counts *)
(*            the failures of SetLease                                     *)
(*   seqTx  : "none", or the open transaction: "ro" or "rw"                *)
(***************************************************************************)
MinInt64 == -(2 ^ (IntBits - 1))
MaxInt64 == 2 ^ (IntBits - 1) - 1

\* int64 arithmetic: the result modulo 2^IntBits, as a signed integer.
Wrap(x) == ((x - MinInt64) % (2 ^ IntBits)) + MinInt64

SequenceInfos ==
    {si \in [IncrementBy : {-2, -1, 1, 2}, Min : {MinInt64, 1}, Max : {3, MaxInt64},
             Start : {MinInt64, 1, 3, MaxInt64}, Cache : 1..MaxCache, Cycle : BOOLEAN] :
        si.Start \in {si.Min, si.Max}}

\* The candidate of Sequence.Next: Start on the first call, else
\* *s.CurrentValue + s.Info.IncrementBy.
Candidate(si, cur) ==
    IF cur = <<>> THEN si.Start ELSE Wrap(cur[1] + si.IncrementBy)

\* The bounds check of Sequence.Next: the error, None without Cycle's wrap
\* or within the bounds.
BoundsErr(si, v) ==
    IF v < si.Min /\ ~si.Cycle THEN "reached minimum value"
    ELSE IF v >= si.Min /\ v > si.Max /\ ~si.Cycle THEN "reached maximum value"
    ELSE None

\* The bounds check of Sequence.Next: the value after it, with Cycle.
Cycled(si, v) ==
    LET belowMin == IF v < si.Min THEN si.Max ELSE v
    IN  IF belowMin > si.Max THEN si.Min ELSE belowMin

\* if s.CurrentValue != nil && s.Cached <= s.Info.Cache, after s.Cached++
ServedFromCache(si, cur, cached) == cur # <<>> /\ cached <= si.Cache

\* The new lease, depending on the direction of the sequence.
NewLease(si, newValue) ==
    IF si.IncrementBy > 0
    THEN LET l == Wrap(Wrap(newValue + si.Cache) - 1)
         IN  IF l > si.Max THEN si.Max ELSE l
    ELSE LET l == Wrap(Wrap(newValue - si.Cache) + 1)
         IN  IF l < si.Min THEN si.Min ELSE l

\* What the caller of Next observes, and what the callers have observed:
\*   tick   : flips at every call of Next
\*   res    : the error of the last call, "ok" without one
\*   wrote  : it wrote the lease (SetLease succeeded)
\*   last   : the value returned by the last successful call of a
\*            transaction that was not rolled back (the value the last
\*            call returned, when res is "ok")
\*   hw     : the value furthest in the direction of the increment that
\*            any call returned
\*   inTx   : a call returned a value in the open transaction
\*   afterRollback : a transaction in which a call returned a value was
\*            rolled back, and Next was not called since
\*   window : the successful calls since the last write of the lease, that
\*            call included; 0 when a failed call or a rollback came since
Observe(res, val, wrote) ==
    LET ok == res = "ok"
        further(a, b) == IF seqInfo.IncrementBy > 0 THEN a > b ELSE a < b
    IN  [tick   |-> ~seqObs.tick,
         res    |-> res,
         wrote  |-> wrote,
         last   |-> IF ok THEN <<val>> ELSE seqObs.last,
         hw     |-> IF ok /\ (seqObs.hw = <<>> \/ further(val, seqObs.hw[1]))
                    THEN <<val>> ELSE seqObs.hw,
         inTx   |-> seqObs.inTx \/ ok,
         afterRollback |-> FALSE,
         window |-> IF ~ok THEN 0
                    ELSE IF wrote THEN 1
                    ELSE IF seqObs.window = 0 THEN 0
                    ELSE IF seqObs.window <= seqInfo.Cache THEN seqObs.window + 1
                    ELSE seqObs.window]

\* Sequence.Next(tx); leaseOk is whether SetLease succeeds, if called.
Next(leaseOk) ==
    LET cur      == seq.CurrentValue
        cand     == Candidate(seqInfo, cur)
        newValue == Cycled(seqInfo, cand)
        cached   == seq.Cached + 1
        reset    == IF cur # <<>> THEN 1 ELSE cached
    IN  IF seqTx # "rw"
        THEN /\ seqObs' = Observe("read-only transaction", 0, FALSE)
             /\ UNCHANGED <<seq, lease>>
        ELSE IF BoundsErr(seqInfo, cand) # None
        THEN /\ seqObs' = Observe(BoundsErr(seqInfo, cand), 0, FALSE)
             /\ UNCHANGED <<seq, lease>>
        ELSE IF ServedFromCache(seqInfo, cur, cached)
        THEN /\ seq' = [CurrentValue |-> <<newValue>>, Cached |-> cached]
             /\ seqObs' = Observe("ok", newValue, FALSE)
             /\ UNCHANGED lease
        ELSE IF leaseOk
        THEN /\ lease' = [lease EXCEPT !.tx = <<NewLease(seqInfo, newValue)>>]
             /\ seq' = [CurrentValue |-> <<newValue>>, Cached |-> reset]
             /\ seqObs' = Observe("ok", newValue, TRUE)
        ELSE /\ lease' = [lease EXCEPT !.faults = @ + 1]
             /\ seq' = [seq EXCEPT !.Cached = reset]
             /\ seqObs' = Observe("SetLease failed", 0, FALSE)

SeqNext(leaseOk) ==
    /\ seqTx # None
    /\ leaseOk \/ lease.faults < MaxFaults
    /\ Next(leaseOk)
    /\ UNCHANGED <<seqInfo, seqTx, txVars, runVars, tblVars, insVars, valVars, ddlVars, qryVars,
                   stmVars>>

\* A transaction is begun: Database.Begin(writable).
SeqBegin(writable) ==
    /\ seqTx = None
    /\ seqTx' = IF writable THEN "rw" ELSE "ro"
    /\ seqObs' = [seqObs EXCEPT !.inTx = FALSE]
    /\ UNCHANGED <<seqInfo, seq, lease, txVars, runVars, tblVars, insVars, valVars, ddlVars, qryVars,
                   stmVars>>

\* The writable transaction is committed: its lease is the committed one.
SeqCommit ==
    /\ seqTx = "rw"
    /\ seqTx' = None
    /\ lease' = [lease EXCEPT !.committed = lease.tx]
    /\ UNCHANGED <<seqInfo, seq, seqObs, txVars, runVars, tblVars, insVars, valVars, ddlVars, qryVars,
                   stmVars>>

\* The sequence after a rollback: the cached values are discarded, the next
\* call of Next leases again from the persisted lease.
DiscardCache(si, persisted) ==
    [CurrentValue |-> persisted,
     Cached       |-> IF persisted = <<>> THEN 0 ELSE si.Cache]

\* The transaction is rolled back: the lease it wrote is undone.
SeqRollback ==
    /\ seqTx # None
    /\ seqTx' = None
    /\ lease' = [lease EXCEPT !.tx = lease.committed]
    /\ seq' = IF seqTx = "rw" THEN DiscardCache(seqInfo, lease.committed) ELSE seq
    /\ seqObs' = IF seqTx = "rw"
                 THEN [seqObs EXCEPT !.last = <<>>, !.window = 0,
                                     !.afterRollback = seqObs.inTx]
                 ELSE seqObs
    /\ UNCHANGED <<seqInfo, txVars, runVars, tblVars, insVars, valVars, ddlVars, qryVars,
                   stmVars>>

InitSeq ==
    /\ seqInfo \in SequenceInfos
    /\ seq = [CurrentValue |-> <<>>, Cached |-> 0]
    /\ lease = [committed |-> <<>>, tx |-> <<>>, faults |-> 0]
    /\ seqTx = None
    /\ seqObs = [tick |-> FALSE, res |-> None, wrote |-> FALSE,
                 last |-> <<>>, hw |-> <<>>, inTx |-> FALSE,
                 afterRollback |-> FALSE, window |-> 0]
    /\ IdleTx /\ IdleRun /\ IdleTbl /\ IdleIns /\ IdleVal /\ IdleDdl
    /\ IdleRes /\ IdleStr /\ IdlePrj /\ IdleEng /\ IdleStm

NextSeq ==
    \/ \E writable \in BOOLEAN : SeqBegin(writable)
    \/ \E leaseOk \in BOOLEAN : SeqNext(leaseOk)
    \/ SeqCommit
    \/ SeqRollback

SpecSeq == InitSeq /\ [][NextSeq]_vars

\* A step that is a call of Sequence.Next on a writable transaction, and
\* one that returned a value.
C5_NextCalled   == seqObs'.tick # seqObs.tick /\ seqTx = "rw"
C5_NextReturned == C5_NextCalled /\ seqObs'.res = "ok"
C5_Further(a, b) == IF seqInfo.IncrementBy > 0 THEN a > b ELSE a < b

(***************************************************************************)
(* C5: without Cycle, successive successful calls of Next return strictly  *)
(* increasing values when IncrementBy > 0 and strictly decreasing values   *)
(* when IncrementBy < 0, within a transaction and across committed         *)
(* transactions.                                                           *)
(***************************************************************************)
C5_StrictlyMonotone ==
    [][(C5_NextReturned /\ ~seqInfo.Cycle /\ seqObs.last # <<>>)
          => C5_Further(seqObs'.last[1], seqObs.last[1])]_vars

(***************************************************************************)
(* C6: after a writable transaction in which Next was called is rolled     *)
(* back, the first Next of the following transaction writes a new lease    *)
(* and returns a value strictly beyond every value returned before.        *)
(***************************************************************************)
C6_NoReuseAfterRollback ==
    [][(C5_NextReturned /\ ~seqInfo.Cycle /\ seqObs.afterRollback)
          => /\ seqObs'.wrote
             /\ C5_Further(seqObs'.last[1], seqObs.hw[1])]_vars

(***************************************************************************)
(* C7: without Cycle, whenever Next returns a value v the lease stored in  *)
(* the sequence table is at or beyond v in the direction of the increment, *)
(* for every non-zero IncrementBy and every Cache >= 1.                    *)
(***************************************************************************)
C7_LeaseCoversValue ==
    [][(C5_NextReturned /\ ~seqInfo.Cycle)
          => /\ lease'.tx # <<>>
             /\ ~C5_Further(seqObs'.last[1], lease'.tx[1])]_vars

(***************************************************************************)
(* C8: with Cache = n, in a run of successful calls of Next the lease is   *)
(* written at most once in every n consecutive calls: the first call       *)
(* writes it, the following n-1 calls do not, the (n+1)-th writes again.   *)
(***************************************************************************)
C8_OneWritePerCache ==
    [][C5_NextReturned
          => /\ seq.CurrentValue = <<>> => seqObs'.wrote
             /\ (seqObs.window > 0 /\ seqObs'.wrote) => seqObs.window = seqInfo.Cache
             /\ (seqObs.window > 0 /\ ~seqObs'.wrote) => seqObs.window < seqInfo.Cache]_vars

(***************************************************************************)
(* C9: with Cycle, a call of Next whose candidate CurrentValue +           *)
(* IncrementBy exceeds Max returns Min, and one whose candidate is below   *)
(* Min returns Max, for every Min <= Max, the largest and the smallest     *)
(* integer included.                                                       *)
(***************************************************************************)
C9_CycleWraps ==
    [][(C5_NextReturned /\ seqInfo.Cycle /\ seq.CurrentValue # <<>>)
          => LET candidate == seq.CurrentValue[1] + seqInfo.IncrementBy
             IN  /\ candidate > seqInfo.Max => seqObs'.last[1] = seqInfo.Min
                 /\ candidate < seqInfo.Min => seqObs'.last[1] = seqInfo.Max]_vars

(***************************************************************************)
(* C10: without Cycle, a call of Next whose candidate CurrentValue +       *)
(* IncrementBy is below Min or above Max fails with the sequence-exhausted *)
(* error and leaves CurrentValue, Cached and the persisted lease unchanged *)
(* (so that every later call fails the same way).                          *)
(***************************************************************************)
C10_ExhaustedFails ==
    [][(C5_NextCalled /\ ~seqInfo.Cycle /\ seq.CurrentValue # <<>>)
          => LET candidate == seq.CurrentValue[1] + seqInfo.IncrementBy
             IN  (candidate < seqInfo.Min \/ candidate > seqInfo.Max)
                    => /\ seqObs'.res \in {"reached minimum value", "reached maximum value"}
                       /\ seq' = seq
                       /\ lease' = lease]_vars

(***************************************************************************)
(* C36: a call of Next in which SetLease fails returns the error and       *)
(* leaves CurrentValue and Cached as they were, and the call of Next that  *)
(* follows a failed one returns no value without writing the lease.        *)
(***************************************************************************)
C36_FailedLeaseChangesNothing ==
    [][/\ (C5_NextCalled /\ seqObs'.res = "SetLease failed") => seq' = seq
       /\ (C5_NextReturned /\ seqObs.res = "SetLease failed") => seqObs'.wrote]_vars

(***************************************************************************)
(* Streams (package document).  A document of a stream has two fields, p   *)
(* and q, whose values are true, false or null.  An iterator is a list of  *)
(* documents (documentsIterator), a Stream (its it and its op, "nil" for   *)
(* a nil op) or a multiIterator.  An expression is nil (<<>>), a path or   *)
(* the AND of two expressions.                                             *)
(***************************************************************************)
Truth == {"true", "false", "null"}

StreamDocuments == [p : Truth, q : Truth]

ErrStreamClosed == "ErrStreamClosed"

NilIterator == [kind |-> "nil"]

NewIterator(documents) == [kind |-> "docs", docs |-> documents]

NilOperator == [kind |-> "nil"]

NewStream(it) == [kind |-> "stream", it |-> it, op |-> NilOperator]

Pipe(s, op) == [kind |-> "stream", it |-> s, op |-> op]

\* The fn of the Map operator of the model: it changes the field p, so that
\* applying it twice differs from applying it once.
MapFn(d) ==
    [d EXCEPT !.p = CASE @ = "true" -> "false" [] @ = "false" -> "null"
                      [] OTHER -> "true"]

NoExpr == <<>>
PathExpr(f) == <<"path", f>>

\* AND in three-valued logic: with a Null it is Null unless the other
\* operand is False.
AndValue_NullIgnored(a, b) ==
    IF a = "null" THEN b ELSE IF b = "null" THEN a
    ELSE IF a = "true" /\ b = "true" THEN "true" ELSE "false"

AndValue(a, b) ==
    IF a = "false" \/ b = "false" THEN "false"
    ELSE IF a = "null" \/ b = "null" THEN "null"
    ELSE "true"

AndExpr(a, b) == <<"AND", a, b>>

RECURSIVE Eval(_, _)
Eval(e, d) ==
    IF e[1] = "path" THEN d[e[2]]
    ELSE AndValue(Eval(e[2], d), Eval(e[3], d))

IsTruthy(v) == v = "true"

\* whereClause(e, stack): the function Stream.Filter is given for WHERE e.
whereClause(e, d) == IF e = NoExpr THEN TRUE ELSE IsTruthy(Eval(e, d))

Map(s) == Pipe(s, [kind |-> "Map"])
Filter(s, e) == Pipe(s, [kind |-> "Filter", e |-> e])
Limit(s, n) == Pipe(s, [kind |-> "Limit", n |-> n])
Offset(s, n) == Pipe(s, [kind |-> "Offset", n |-> n])

\* Stream.Append: s is a copy, its op is kept.
StreamAppend(s, it) ==
    IF s.it.kind = "multi"
    THEN [s EXCEPT !.it.iterators = Append(@, it)]
    ELSE [s EXCEPT !.it = [kind |-> "multi", iterators |-> <<s, it>>]]

(***************************************************************************)
(* Iteration.  st is the state of one call of Iterate by a caller:         *)
(*   frames    : for every Stream with an op that is being iterated, the   *)
(*               outermost first: its op, the counter of the closure that  *)
(*               s.op() made (count of Limit, skipped of Offset) and the   *)
(*               number of documents the closure was called with           *)
(*   fn        : the caller's callback: it returns fn.err from its         *)
(*               stopAt-th document on (never, when stopAt is 0)           *)
(*   got       : the documents passed to the caller's callback             *)
(*   err       : what the call in progress returns                         *)
(*   delivered : the documents the outermost op was called with            *)
(*   pulled    : the documents the documentsIterators produced             *)
(***************************************************************************)
NeverStops == [stopAt |-> 0, err |-> None]

IterState(fn) ==
    [frames |-> <<>>, fn |-> fn, got |-> <<>>, err |-> None,
     delivered |-> 0, pulled |-> 0]

\* The caller's callback.
Callback(d, st) ==
    LET got == Append(st.got, d)
    IN  [st EXCEPT !.got = got,
                   !.err = IF st.fn.stopAt > 0 /\ Len(got) >= st.fn.stopAt
                           THEN st.fn.err ELSE None]

\* The function that the k-th frame passes to its iterator: opFn, then the
\* function of the frame around it; the 0-th is the caller's callback.
RECURSIVE PassTo(_, _, _)
PassTo(d, k, st) ==
    IF k = 0 THEN Callback(d, st)
    ELSE LET f  == st.frames[k]
             s1 == [st EXCEPT !.frames[k].calls = @ + 1]
         IN  CASE f.op.kind = "Map" -> PassTo(MapFn(d), k - 1, s1)
               [] f.op.kind = "Filter" ->
                    IF whereClause(f.op.e, d) THEN PassTo(d, k - 1, s1)
                    ELSE [s1 EXCEPT !.err = None]
               [] f.op.kind = "Limit" ->
                    IF f.count < f.op.n
                    THEN PassTo(d, k - 1, [s1 EXCEPT !.frames[k].count = @ + 1])
                    ELSE [s1 EXCEPT !.err = ErrStreamClosed]
               [] f.op.kind = "Offset" ->
                    IF f.count < f.op.n
                    THEN [s1 EXCEPT !.frames[k].count = @ + 1, !.err = None]
                    ELSE PassTo(d, k - 1, s1)

\* documentsIterator.Iterate, from the i-th document on.
RECURSIVE documentsIterate(_, _, _)
documentsIterate(docs, i, st) ==
    IF i > Len(docs) THEN [st EXCEPT !.err = None]
    ELSE LET r == PassTo(docs[i], Len(st.frames),
                         [st EXCEPT !.pulled = @ + 1])
         IN  IF r.err # None THEN r ELSE documentsIterate(docs, i + 1, r)

\* The order of the values of a field: Null sorts first.
Rank(v) == CASE v = "null" -> 0 [] v = "false" -> 1 [] OTHER -> 2

\* docs with d added, after the documents that do not sort after it.
RECURSIVE InsertSorted(_, _, _, _)
InsertSorted(docs, d, path, desc) ==
    IF docs = <<>> THEN <<d>>
    ELSE IF (IF desc THEN Rank(Head(docs)[path]) < Rank(d[path])
                     ELSE Rank(Head(docs)[path]) > Rank(d[path]))
    THEN <<d>> \o docs
    ELSE <<Head(docs)>> \o InsertSorted(Tail(docs), d, path, desc)

\* The sort node: the documents of its input in the order of the path.
RECURSIVE SortBy(_, _, _)
SortBy(docs, path, desc) ==
    IF docs = <<>> THEN <<>>
    ELSE InsertSorted(SortBy(SubSeq(docs, 1, Len(docs) - 1), path, desc),
                      docs[Len(docs)], path, desc)

\* it.Iterate(fn) for the kinds of iterator; multiIterate is
\* multiIterator.Iterate from the i-th iterator on.  A sort node reads all
\* of its input, then passes the documents on in order.
RECURSIVE Iterate(_, _)
RECURSIVE multiIterate(_, _, _)
Iterate(it, st) ==
    CASE it.kind = "docs" -> documentsIterate(it.docs, 1, st)
      [] it.kind = "multi" -> multiIterate(it.iterators, 1, st)
      [] it.kind = "sort" ->
           documentsIterate(
               SortBy(Iterate(it.it, IterState(NeverStops)).got, it.path, it.desc),
               1, st)
      [] it.kind = "stream" ->
           IF it.it.kind = "nil" THEN [st EXCEPT !.err = None]
           ELSE IF it.op.kind = "nil" THEN Iterate(it.it, st)
           ELSE LET k == Len(st.frames) + 1
                    r == Iterate(it.it,
                           [st EXCEPT !.frames =
                               Append(@, [op |-> it.op, count |-> 0, calls |-> 0])])
                IN  [r EXCEPT !.frames = SubSeq(@, 1, k - 1),
                              !.delivered = IF k = 1 THEN r.frames[1].calls ELSE @,
                              !.err = IF r.err # ErrStreamClosed THEN r.err ELSE None]

multiIterate(its, i, st) ==
    IF i > Len(its) THEN [st EXCEPT !.err = None]
    ELSE LET r == Iterate(its[i], st)
         IN  IF r.err # None THEN r ELSE multiIterate(its, i + 1, r)

\* Stream.Iterate(fn) called by a caller.
StreamIterate(s, fn) == Iterate(s, IterState(fn))

\* Stream.First: the document found, <<>> for nil, and the error.
First(s) ==
    LET r == StreamIterate(s, [stopAt |-> 1, err |-> ErrStreamClosed])
    IN  [d   |-> IF r.got = <<>> THEN <<>> ELSE <<r.got[Len(r.got)]>>,
         err |-> IF r.err = ErrStreamClosed THEN None ELSE r.err]

\* The number of operators and appended iterators of a stream.
RECURSIVE Size(_)
RECURSIVE SizeAll(_, _)
Size(it) ==
    CASE it.kind = "stream" -> Size(it.it) + (IF it.op.kind = "nil" THEN 0 ELSE 1)
      [] it.kind = "multi" -> SizeAll(it.iterators, 1) + Len(it.iterators) - 1
      [] OTHER -> 0

SizeAll(its, i) == IF i > Len(its) THEN 0 ELSE Size(its[i]) + SizeAll(its, i + 1)

(***************************************************************************)
(* SpecStream: a caller builds a stream with Map, Filter, Limit, Offset    *)
(* and Append and calls Iterate or First on it.                            *)
(***************************************************************************)
MaxOps   == 4   \* operators of one stream, an op that Append copied included
MaxLen   == 2   \* documents of one documentsIterator
MaxLimit == 1   \* the n of Limit and Offset is in 0..MaxLimit

NoIter == [op |-> None, fn |-> NeverStops, got |-> <<>>, err |-> None,
           delivered |-> 0, pulled |-> 0]

Exprs == {PathExpr("p"), PathExpr("q"), AndExpr(PathExpr("p"), PathExpr("q"))}

Callbacks ==
    {NeverStops} \cup [stopAt : 1..MaxLen, err : {ErrStreamClosed, "failed"}]

\* The documents of the iterators of SpecStream.
DocTrue == [p |-> "true", q |-> "true"]
DocNull == [p |-> "true", q |-> "null"]

StrMap ==
    /\ Size(stream) < MaxOps
    /\ stream' = Map(stream)
    /\ iter' = NoIter
    /\ UNCHANGED <<selectCfg, txVars, runVars, tblVars, insVars, valVars,
                   seqVars, ddlVars, resVars, prjVars, engVars, stmVars>>

StrFilter(e) ==
    /\ Size(stream) < MaxOps
    /\ stream' = Filter(stream, e)
    /\ iter' = NoIter
    /\ UNCHANGED <<selectCfg, txVars, runVars, tblVars, insVars, valVars,
                   seqVars, ddlVars, resVars, prjVars, engVars, stmVars>>

StrLimit(n) ==
    /\ Size(stream) < MaxOps
    /\ stream' = Limit(stream, n)
    /\ iter' = NoIter
    /\ UNCHANGED <<selectCfg, txVars, runVars, tblVars, insVars, valVars,
                   seqVars, ddlVars, resVars, prjVars, engVars, stmVars>>

StrOffset(n) ==
    /\ Size(stream) < MaxOps
    /\ stream' = Offset(stream, n)
    /\ iter' = NoIter
    /\ UNCHANGED <<selectCfg, txVars, runVars, tblVars, insVars, valVars,
                   seqVars, ddlVars, resVars, prjVars, engVars, stmVars>>

StrAppend(it) ==
    /\ Size(stream) < MaxOps
    /\ stream' = StreamAppend(stream, it)
    /\ iter' = NoIter
    /\ UNCHANGED <<selectCfg, txVars, runVars, tblVars, insVars, valVars,
                   seqVars, ddlVars, resVars, prjVars, engVars, stmVars>>

StrIterate(fn) ==
    /\ LET r == StreamIterate(stream, fn)
       IN  iter' = [op |-> "Iterate", fn |-> fn, got |-> r.got, err |-> r.err,
                    delivered |-> r.delivered, pulled |-> r.pulled]
    /\ UNCHANGED <<stream, selectCfg, txVars, runVars, tblVars, insVars,
                   valVars, seqVars, ddlVars, resVars, prjVars, engVars,
                   stmVars>>

StrFirst ==
    /\ LET r == First(stream)
       IN  iter' = [NoIter EXCEPT !.op = "First", !.got = r.d, !.err = r.err]
    /\ UNCHANGED <<stream, selectCfg, txVars, runVars, tblVars, insVars,
                   valVars, seqVars, ddlVars, resVars, prjVars, engVars,
                   stmVars>>

InitStream ==
    /\ stream \in {NewStream(NilIterator)} \cup
                  {NewStream(NewIterator(docs)) :
                       docs \in SeqsUpTo({DocTrue, DocNull}, MaxLen)}
    /\ iter = NoIter
    /\ selectCfg = None
    /\ IdleTx /\ IdleRun /\ IdleTbl /\ IdleIns /\ IdleVal /\ IdleSeq /\ IdleDdl
    /\ IdleRes /\ IdlePrj /\ IdleEng /\ IdleStm

NextStream ==
    \/ StrMap
    \/ \E e \in {PathExpr("q")} : StrFilter(e)
    \/ \E n \in 0..MaxLimit : StrLimit(n)
    \/ \E n \in 0..MaxLimit : StrOffset(n)
    \/ StrAppend(NewIterator(<<DocNull>>))
    \/ \E fn \in Callbacks : StrIterate(fn)
    \/ StrFirst

SpecStream == InitStream /\ [][NextStream]_vars

(***************************************************************************)
(* C22: Stream.Iterate never returns ErrStreamClosed, with or without a    *)
(* piped operator; when the callback returns ErrStreamClosed no further    *)
(* document is passed to it and Iterate returns nil.                       *)
(***************************************************************************)
C22_ClosedNeverSurfaces ==
    iter.op = "Iterate" =>
        /\ iter.err # ErrStreamClosed
        /\ (/\ iter.fn.err = ErrStreamClosed
            /\ Len(iter.got) >= iter.fn.stopAt)
           => (Len(iter.got) = iter.fn.stopAt /\ iter.err = None)

(***************************************************************************)
(* C23: Iterate on a stream whose last operator is Limit(n) passes exactly *)
(* the first min(n, N) of the N documents of its input to the callback, in *)
(* order, returns nil, and the Limit operator is given no document of the  *)
(* input beyond the (n+1)-th.                                              *)
(***************************************************************************)
C23_Input == StreamIterate(stream.it, NeverStops).got

C23_LimitTakesFirst ==
    (iter.op = "Iterate" /\ iter.fn = NeverStops /\ stream.op.kind = "Limit")
    => /\ iter.got = SubSeq(C23_Input, 1,
                            IF stream.op.n < Len(C23_Input)
                            THEN stream.op.n ELSE Len(C23_Input))
       /\ iter.err = None
       /\ iter.delivered <= stream.op.n + 1

(***************************************************************************)
(* C26: for a stream s built by NewStream or by Pipe and an iterator it,   *)
(* s.Append(it) yields the documents that s yields, in order, and then the *)
(* documents that it yields, in order, each once.                          *)
(***************************************************************************)
C26_Yield(it) == Iterate(it, IterState(NeverStops)).got

\* The stream that Append was called on and the iterator it was given.
C26_Before ==
    IF Len(stream.it.iterators) = 2 THEN stream.it.iterators[1]
    ELSE [stream EXCEPT !.it.iterators = SubSeq(@, 1, Len(@) - 1)]

C26_Appended == stream.it.iterators[Len(stream.it.iterators)]

C26_AppendConcatenates ==
    (iter.op = "Iterate" /\ iter.fn = NeverStops /\ stream.it.kind = "multi")
    => iter.got = C26_Yield(C26_Before) \o C26_Yield(C26_Appended)

(***************************************************************************)
(* SpecFilter: streams of documents with every pair of values of p and q,  *)
(* filtered by WHERE clauses and iterated.                                 *)
(***************************************************************************)
InitFilter ==
    /\ stream \in {NewStream(NewIterator(docs)) :
                       docs \in SeqsUpTo(StreamDocuments, MaxLen)}
    /\ iter = NoIter
    /\ selectCfg = None
    /\ IdleTx /\ IdleRun /\ IdleTbl /\ IdleIns /\ IdleVal /\ IdleSeq /\ IdleDdl
    /\ IdleRes /\ IdlePrj /\ IdleEng /\ IdleStm

NextFilter ==
    \/ \E e \in Exprs : StrFilter(e)
    \/ \E fn \in Callbacks : StrIterate(fn)

SpecFilter == InitFilter /\ [][NextFilter]_vars

(***************************************************************************)
(* C25: a stream filtered by e1 and then by e2, the values of e1 and e2    *)
(* being True, False or Null, passes the same documents in the same order  *)
(* and returns the same error as the stream filtered once by e1 AND e2.    *)
(***************************************************************************)
C25_TwoFilters ==
    /\ iter.op = "Iterate"
    /\ stream.op.kind = "Filter"
    /\ stream.it.op.kind = "Filter"

C25_FilteredOnce ==
    StreamIterate(Filter(stream.it.it, AndExpr(stream.it.op.e, stream.op.e)),
                  iter.fn)

C25_FiltersCompose ==
    C25_TwoFilters =>
        /\ iter.got = C25_FilteredOnce.got
        /\ iter.err = C25_FilteredOnce.err

\* Two filters on different fields met a document for which the first is
\* Null and one that both keep.
C25_Witness ==
    /\ C25_TwoFilters
    /\ stream.it.op.e = PathExpr("p") /\ stream.op.e = PathExpr("q")
    /\ \E i \in 1..Len(stream.it.it.it.docs) :
          /\ stream.it.it.it.docs[i].p = "null"
          /\ stream.it.it.it.docs[i].q = "true"
    /\ iter.got # <<>>

(***************************************************************************)
(* SELECT.  selectCfg holds cfg, the selectConfig the parser filled, the   *)
(* rows of the table and tree, the nodes of the tree that ToTree built,    *)
(* the input first (<<>> before ToTree).  An absent clause (a nil          *)
(* expression) is <<>>, LIMIT n is <<n>>.                                  *)
(***************************************************************************)
MaxRows == 3   \* rows of the table of a SELECT

Rows ==
    {[p |-> "true", q |-> "true"], [p |-> "false", q |-> "true"],
     [p |-> "null", q |-> "false"]}

selectConfigs ==
    [TableName : {"", "test"},
     WhereExpr : {NoExpr, PathExpr("q")},
     OrderBy : {<<>>, <<"p">>},
     OrderByDirection : {"ASC", "DESC"},
     OffsetExpr : {<<>>} \cup {<<n>> : n \in 0..MaxLimit + 1},
     LimitExpr : {<<>>} \cup {<<n>> : n \in 0..MaxLimit + 1},
     ProjectionExprs : {<<"*">>}]

\* The nodes that ToTree adds for the LIMIT and OFFSET clauses.
OffsetLimit_LimitFirst(cfg) ==
    (IF cfg.LimitExpr # <<>>
     THEN <<[kind |-> "Limit", n |-> cfg.LimitExpr[1]]>> ELSE <<>>)
    \o (IF cfg.OffsetExpr # <<>>
        THEN <<[kind |-> "Offset", n |-> cfg.OffsetExpr[1]]>> ELSE <<>>)

OffsetLimit(cfg) ==
    (IF cfg.OffsetExpr # <<>>
     THEN <<[kind |-> "Offset", n |-> cfg.OffsetExpr[1]]>> ELSE <<>>)
    \o (IF cfg.LimitExpr # <<>>
        THEN <<[kind |-> "Limit", n |-> cfg.LimitExpr[1]]>> ELSE <<>>)

\* selectConfig.ToTree
ToTree(cfg) ==
    IF cfg.TableName = ""
    THEN <<[kind |-> "Projection", exprs |-> cfg.ProjectionExprs]>>
    ELSE <<[kind |-> "TableInput", name |-> cfg.TableName]>>
         \o (IF cfg.WhereExpr # NoExpr
             THEN <<[kind |-> "Selection", e |-> cfg.WhereExpr]>> ELSE <<>>)
         \o (IF cfg.OrderBy # <<>>
             THEN <<[kind |-> "Sort", path |-> cfg.OrderBy[1],
                     desc |-> cfg.OrderByDirection = "DESC"]>> ELSE <<>>)
         \o OffsetLimit(cfg)
         \o <<[kind |-> "Projection", exprs |-> cfg.ProjectionExprs]>>

\* The stream of the first i nodes of a tree over the rows of the table.  A
\* projection without input passes one document on; the projection of the
\* wildcard passes the documents of its input on.
RECURSIVE TreeStream(_, _, _)
TreeStream(tree, i, rows) ==
    IF i = 0 THEN NewStream(NewIterator(<<[p |-> "null", q |-> "null"]>>))
    ELSE LET node == tree[i]
             in   == TreeStream(tree, i - 1, rows)
         IN  CASE node.kind = "TableInput" -> NewStream(NewIterator(rows))
               [] node.kind = "Selection" -> Filter(in, node.e)
               [] node.kind = "Sort" ->
                    NewStream([kind |-> "sort", it |-> in, path |-> node.path,
                               desc |-> node.desc])
               [] node.kind = "Offset" -> Offset(in, node.n)
               [] node.kind = "Limit" -> Limit(in, node.n)
               [] node.kind = "Projection" -> NewStream(in)

\* parseSelectStatement: cfg.ToTree()
SelToTree ==
    /\ selectCfg.tree = <<>>
    /\ selectCfg' = [selectCfg EXCEPT !.tree = ToTree(selectCfg.cfg)]
    /\ stream' = TreeStream(selectCfg'.tree, Len(selectCfg'.tree), selectCfg.rows)
    /\ UNCHANGED <<iter, txVars, runVars, tblVars, insVars, valVars,
                   seqVars, ddlVars, resVars, prjVars, engVars, stmVars>>

\* The statement is run and its result iterated.
SelIterate(fn) ==
    /\ selectCfg.tree # <<>>
    /\ LET r == StreamIterate(stream, fn)
       IN  iter' = [op |-> "Iterate", fn |-> fn, got |-> r.got, err |-> r.err,
                    delivered |-> r.delivered, pulled |-> r.pulled]
    /\ UNCHANGED <<stream, selectCfg, txVars, runVars, tblVars, insVars,
                   valVars, seqVars, ddlVars, resVars, prjVars, engVars,
                   stmVars>>

InitSelect ==
    /\ selectCfg \in [cfg : selectConfigs, rows : SeqsUpTo(Rows, MaxRows),
                      tree : {<<>>}]
    /\ stream = NewStream(NilIterator)
    /\ iter = NoIter
    /\ IdleTx /\ IdleRun /\ IdleTbl /\ IdleIns /\ IdleVal /\ IdleSeq /\ IdleDdl
    /\ IdleRes /\ IdlePrj /\ IdleEng /\ IdleStm

NextSelect ==
    \/ SelToTree
    \/ \E fn \in Callbacks : SelIterate(fn)

SpecSelect == InitSelect /\ [][NextSelect]_vars

(***************************************************************************)
(* C24: SELECT ... FROM t [WHERE e] [ORDER BY p] LIMIT n OFFSET m yields   *)
(* the rows m to m+n-1 (counted from 0) of the filtered and sorted rows of *)
(* the table: the offset is applied before the limit.                      *)
(***************************************************************************)
RECURSIVE C24_Filtered(_, _)
C24_Filtered(rows, e) ==
    IF rows = <<>> THEN <<>>
    ELSE (IF whereClause(e, Head(rows)) THEN <<Head(rows)>> ELSE <<>>)
         \o C24_Filtered(Tail(rows), e)

C24_Sorted ==
    LET cfg  == selectCfg.cfg
        rows == C24_Filtered(selectCfg.rows, cfg.WhereExpr)
    IN  IF cfg.OrderBy = <<>> THEN rows
        ELSE SortBy(rows, cfg.OrderBy[1], cfg.OrderByDirection = "DESC")

C24_LimitOffset ==
    /\ iter.op = "Iterate" /\ iter.fn = NeverStops
    /\ selectCfg.cfg.TableName # ""
    /\ selectCfg.cfg.LimitExpr # <<>>
    /\ selectCfg.cfg.OffsetExpr # <<>>

C24_OffsetThenLimit ==
    C24_LimitOffset =>
        LET m    == selectCfg.cfg.OffsetExpr[1]
            n    == selectCfg.cfg.LimitExpr[1]
            last == IF m + n < Len(C24_Sorted) THEN m + n ELSE Len(C24_Sorted)
        IN  /\ iter.got = SubSeq(C24_Sorted, m + 1, last)
            /\ iter.err = None

\* WHERE, ORDER BY, LIMIT 1 and OFFSET 1 on three rows that the WHERE
\* clause keeps and the ORDER BY clause puts in another order.
C24_Witness ==
    /\ C24_LimitOffset
    /\ selectCfg.cfg.OffsetExpr = <<1>> /\ selectCfg.cfg.LimitExpr = <<1>>
    /\ selectCfg.cfg.OrderBy # <<>> /\ selectCfg.cfg.WhereExpr # NoExpr
    /\ Len(selectCfg.rows) = MaxRows
    /\ C24_Sorted # selectCfg.rows
    /\ Len(C24_Sorted) > 2
    /\ iter.got = <<C24_Sorted[2]>>

(***************************************************************************)
(* Projection (package stream).  A document is the list of its fields, in  *)
(* order, each a pair <<name, value>>.  A projected expression is the      *)
(* wildcard "*" or the path of a field, and its name is the field's.       *)
(*   mask : a MaskDocument: Exprs, and the document of Env: hasDoc tells   *)
(*          whether Env.GetDocument finds one, doc is that document        *)
(***************************************************************************)
MaxExprs == 3   \* expressions of one projection

Wildcard == "*"

FieldNames == {"id", "name", "age"}

SourceDocuments ==
    {<< <<"id", "10">>, <<"name", "foo">>, <<"age", "15">> >>,
     << <<"age", "15">>, <<"id", "10">> >>,
     <<>>}

ErrFieldNotFound == "ErrFieldNotFound"

\* Document.GetByField on a document of the model.
RECURSIVE GetByField(_, _)
GetByField(doc, field) ==
    IF doc = <<>> THEN [v |-> "null", err |-> ErrFieldNotFound]
    ELSE IF Head(doc)[1] = field THEN [v |-> Head(doc)[2], err |-> None]
    ELSE GetByField(Tail(doc), field)

\* FieldSelector.Eval of a path of one chunk.
FieldSelectorEval(m, field) ==
    IF ~m.hasDoc THEN [v |-> "null", err |-> ErrFieldNotFound]
    ELSE [v |-> GetByField(m.doc, field).v, err |-> None]

\* The fields of doc from the j-th on that are not in fields yet.
RECURSIVE NewFields(_, _, _)
NewFields(doc, j, fields) ==
    IF j > Len(doc) THEN <<>>
    ELSE IF doc[j][1] \in fields THEN NewFields(doc, j + 1, fields)
    ELSE <<doc[j]>> \o NewFields(doc, j + 1, fields \cup {doc[j][1]})

\* The indexes of Exprs in the order of the loop of Iterate and GetByField:
\* for i := len(d.Exprs) - 1; i >= 0; i--
ExprFirst(m) == Len(m.Exprs)
ExprAfter(m, i) == i - 1

\* MaskDocument.Iterate from the i-th expression on: out are the fields
\* passed to fn so far, fields their names.
RECURSIVE MaskIterate(_, _, _, _)
MaskIterate(m, i, fields, out) ==
    IF i < 1 \/ i > Len(m.Exprs) THEN [fields |-> out, err |-> None]
    ELSE LET e == m.Exprs[i]
         IN  IF e = Wildcard
             THEN IF ~m.hasDoc THEN [fields |-> out, err |-> None]
                  ELSE LET new == NewFields(m.doc, 1, fields)
                       IN  MaskIterate(m, ExprAfter(m, i),
                                       fields \cup {new[j][1] : j \in 1..Len(new)},
                                       out \o new)
             ELSE IF e \in fields
             THEN MaskIterate(m, ExprAfter(m, i), fields, out)
             ELSE LET r == FieldSelectorEval(m, e)
                  IN  IF r.err # None THEN [fields |-> out, err |-> r.err]
                      ELSE MaskIterate(m, ExprAfter(m, i), fields \cup {e},
                                       Append(out, <<e, r.v>>))

\* MaskDocument.GetByField from the i-th expression on.
RECURSIVE MaskGetByField(_, _, _)
MaskGetByField(m, i, field) ==
    IF i < 1 \/ i > Len(m.Exprs) THEN [v |-> "null", err |-> ErrFieldNotFound]
    ELSE LET e == m.Exprs[i]
         IN  IF e = Wildcard
             THEN IF ~m.hasDoc \/ GetByField(m.doc, field).err = ErrFieldNotFound
                  THEN MaskGetByField(m, ExprAfter(m, i), field)
                  ELSE GetByField(m.doc, field)
             ELSE IF e = field THEN FieldSelectorEval(m, e)
             ELSE MaskGetByField(m, ExprAfter(m, i), field)

NoProjected == [op |-> None, fields |-> <<>>, err |-> None]

PrjIterate ==
    /\ LET r == MaskIterate(mask, ExprFirst(mask), {}, <<>>)
       IN  projected' = [op |-> "Iterate", fields |-> r.fields, err |-> r.err]
    /\ UNCHANGED <<mask, txVars, runVars, tblVars, insVars, valVars,
                   seqVars, ddlVars, resVars, strVars, engVars, stmVars>>

PrjGetByField(field) ==
    /\ LET r == MaskGetByField(mask, ExprFirst(mask), field)
       IN  projected' = [op |-> "GetByField",
                         fields |-> IF r.err = None THEN << <<field, r.v>> >>
                                    ELSE <<>>,
                         err |-> r.err]
    /\ UNCHANGED <<mask, txVars, runVars, tblVars, insVars, valVars,
                   seqVars, ddlVars, resVars, strVars, engVars, stmVars>>

InitProject ==
    /\ mask \in [Exprs : SeqsUpTo(FieldNames \cup {Wildcard}, MaxExprs) \ {<<>>},
                 hasDoc : BOOLEAN, doc : SourceDocuments]
    /\ ~mask.hasDoc => mask.doc = <<>>
    /\ projected = NoProjected
    /\ IdleTx /\ IdleRun /\ IdleTbl /\ IdleIns /\ IdleVal /\ IdleSeq /\ IdleDdl
    /\ IdleRes /\ IdleStr /\ IdleEng /\ IdleStm

NextProject ==
    \/ PrjIterate
    \/ \E field \in FieldNames : PrjGetByField(field)

SpecProject == InitProject /\ [][NextProject]_vars

(***************************************************************************)
(* C27: the document that Project(e1, ..., en) produces enumerates its     *)
(* fields in the order of the projection list, a wildcard standing for the *)
(* fields of the source document at its position (for a list that names no *)
(* field twice).                                                           *)
(***************************************************************************)
RECURSIVE C27_Expected(_)
C27_Expected(i) ==
    IF i > Len(mask.Exprs) THEN <<>>
    ELSE (IF mask.Exprs[i] = Wildcard
          THEN [j \in 1..Len(mask.doc) |-> mask.doc[j][1]]
          ELSE <<mask.Exprs[i]>>) \o C27_Expected(i + 1)

C27_NoFieldTwice ==
    \A i, j \in 1..Len(C27_Expected(1)) :
        C27_Expected(1)[i] = C27_Expected(1)[j] => i = j

C27_FieldsInListOrder ==
    (/\ projected.op = "Iterate" /\ projected.err = None
     /\ mask.hasDoc /\ C27_NoFieldTwice)
    => [j \in 1..Len(projected.fields) |-> projected.fields[j][1]]
         = C27_Expected(1)

(***************************************************************************)
(* SpecEngine: the stores of the badger engine.  A store exists when its   *)
(* key (buildStoreKey) does; dbData is the set of the names of the stores  *)
(* that are committed.  A transaction reads the snapshot badger took when  *)
(* it began and its own writes: for each name the last of Set ("set") and  *)
(* Delete ("delete") of the store's key.  On a discarded badger            *)
(* transaction Get, Set and Delete fail with ErrDiscardedTxn.              *)
(*   engRes : the last call: op, the transaction t and the name it was     *)
(*            given, the error it returned, the transaction as the call    *)
(*            found it (was), whether it saw a store of that name          *)
(*            (existed) and whether the call changed the committed stores  *)
(*            or the writes of a transaction (changed); prev is the call   *)
(*            before it                                                    *)
(***************************************************************************)
StoreNames == {"a"}

Write(writes, op, name) ==
    {w \in writes : w.name # name} \cup {[op |-> op, name |-> name]}

ApplyWrites(data, writes) ==
    (data \ {w.name : w \in {x \in writes : x.op = "delete"}})
    \cup {w.name : w \in {x \in writes : x.op = "set"}}

\* The stores that transaction t sees.
View(t) == ApplyWrites(snapshots[t], txs[t].writes)

\* The committed stores after Transaction.Commit.
CommitStores(data, tx, ok) ==
    IF CommitErr(tx, ok) = None THEN ApplyWrites(data, tx.writes) ELSE data

\* Transaction.GetStore: the error it returns.
GetStoreErr(t, name) ==
    IF txs[t].discarded THEN "ErrDiscardedTxn"
    ELSE IF name \notin View(t) THEN "ErrStoreNotFound"
    ELSE None

\* if !t.writable { return engine.ErrTransactionReadOnly }
Writable_Always(t) == TRUE

Writable(t) == txs[t].writable

\* Transaction.CreateStore: the error it returns.
CreateStoreErr(t, name) ==
    IF ~Writable(t) THEN "ErrTransactionReadOnly"
    ELSE IF txs[t].discarded THEN "ErrDiscardedTxn"
    ELSE IF name \in View(t) THEN "ErrStoreAlreadyExists"
    ELSE None

\* Transaction.DropStore: the error it returns.
DropStoreErr(t, name) ==
    IF ~Writable(t) THEN "ErrTransactionReadOnly" ELSE GetStoreErr(t, name)

NoEngRes ==
    [op |-> None, t |-> 0, name |-> None, err |-> None,
     was |-> NewTransaction(FALSE, 0, FALSE), existed |-> FALSE,
     changed |-> FALSE,
     prev |-> [op |-> None, t |-> 0, err |-> None]]

\* What a call leaves in engRes.
EngReturn(op, t, name, err) ==
    engRes' = [op |-> op, t |-> t, name |-> name, err |-> err, was |-> txs[t],
               existed |-> name \in View(t),
               changed |-> dbData' # dbData \/ txs'[t].writes # txs[t].writes,
               prev |-> [op |-> engRes.op, t |-> engRes.t, err |-> engRes.err]]

EngBegin(writable) ==
    /\ Len(txs) < MaxOpen
    /\ txs' = EngineBegin(txs, writable, 0, FALSE)
    /\ snapshots' = Append(snapshots, dbData)
    /\ UNCHANGED dbData
    /\ engRes' = [NoEngRes EXCEPT !.op = "Begin", !.t = Len(txs) + 1,
                     !.was = txs'[Len(txs) + 1],
                     !.prev = [op |-> engRes.op, t |-> engRes.t, err |-> engRes.err]]
    /\ UNCHANGED <<runVars, tblVars, seqVars, insVars, valVars, ddlVars,
                   resVars, strVars, prjVars, stmVars>>

EngCommit(t, ok) ==
    /\ (txs[t].discarded \/ ~txs[t].writable) => ok
    /\ txs' = TxCommit(txs, t, ok)
    /\ dbData' = CommitStores(dbData, txs[t], ok)
    /\ EngReturn("Commit", t, None, CommitErr(txs[t], ok))
    /\ UNCHANGED <<snapshots, runVars, tblVars, seqVars, insVars, valVars,
                   ddlVars, resVars, strVars, prjVars, stmVars>>

EngRollback(t) ==
    /\ txs' = TxRollback(txs, t)
    /\ UNCHANGED dbData
    /\ EngReturn("Rollback", t, None, None)
    /\ UNCHANGED <<snapshots, runVars, tblVars, seqVars, insVars, valVars,
                   ddlVars, resVars, strVars, prjVars, stmVars>>

EngGetStore(t, name) ==
    /\ UNCHANGED <<txs, dbData>>
    /\ EngReturn("GetStore", t, name, GetStoreErr(t, name))
    /\ UNCHANGED <<snapshots, runVars, tblVars, seqVars, insVars, valVars,
                   ddlVars, resVars, strVars, prjVars, stmVars>>

EngCreateStore(t, name) ==
    /\ txs' = IF CreateStoreErr(t, name) # None THEN txs
              ELSE [txs EXCEPT ![t].writes = Write(@, "set", name)]
    /\ UNCHANGED dbData
    /\ EngReturn("CreateStore", t, name, CreateStoreErr(t, name))
    /\ UNCHANGED <<snapshots, runVars, tblVars, seqVars, insVars, valVars,
                   ddlVars, resVars, strVars, prjVars, stmVars>>

EngDropStore(t, name) ==
    /\ txs' = IF DropStoreErr(t, name) # None THEN txs
              ELSE [txs EXCEPT ![t].writes = Write(@, "delete", name)]
    /\ UNCHANGED dbData
    /\ EngReturn("DropStore", t, name, DropStoreErr(t, name))
    /\ UNCHANGED <<snapshots, runVars, tblVars, seqVars, insVars, valVars,
                   ddlVars, resVars, strVars, prjVars, stmVars>>

InitEngine ==
    /\ txs = <<>> /\ snapshots = <<>>
    /\ dbData \in SUBSET StoreNames
    /\ engRes = NoEngRes
    /\ IdleRun /\ IdleTbl /\ IdleIns /\ IdleVal /\ IdleSeq /\ IdleDdl
    /\ IdleRes /\ IdleStr /\ IdlePrj /\ IdleStm

NextEngine ==
    \/ \E writable \in BOOLEAN : EngBegin(writable)
    \/ \E t \in 1..Len(txs), ok \in BOOLEAN : EngCommit(t, ok)
    \/ \E t \in 1..Len(txs) : EngRollback(t)
    \/ \E t \in 1..Len(txs), name \in StoreNames : EngGetStore(t, name)
    \/ \E t \in 1..Len(txs), name \in StoreNames : EngCreateStore(t, name)
    \/ \E t \in 1..Len(txs), name \in StoreNames : EngDropStore(t, name)

SpecEngine == InitEngine /\ [][NextEngine]_vars

C30_Errors(r) ==
    /\ (r.op \in {"Commit", "CreateStore", "DropStore"} /\ ~r.was.writable)
       => (r.err = "ErrTransactionReadOnly" /\ ~r.changed)
    /\ (r.op = "CreateStore" /\ r.was.writable /\ r.existed)
       => (r.err = "ErrStoreAlreadyExists" /\ ~r.changed)
    /\ (r.op \in {"GetStore", "DropStore"} /\ r.was.writable /\ ~r.existed)
       => (r.err = "ErrStoreNotFound" /\ ~r.changed)

C30_AnyTransaction == C30_Errors(engRes)

C30_OpenTransaction == ~engRes.was.discarded => C30_Errors(engRes)

\* CreateStore on an open read-only transaction has returned
\* ErrTransactionReadOnly, and then CreateStore of a name that exists is
\* called on an open writable transaction.
C30_Witness ==
    /\ engRes.op = "CreateStore" /\ engRes.existed
    /\ engRes.was.writable /\ ~engRes.was.discarded
    /\ engRes.prev.op = "CreateStore"
    /\ engRes.prev.err = "ErrTransactionReadOnly"
    /\ ~txs[engRes.prev.t].discarded

(***************************************************************************)
(* SpecExplain: ExplainStmt.Run.  ToStream, planner.Optimize, Stream.String*)
(* and StreamStmt.Run are outside the sources at hand: a stream is the     *)
(* sequence of its operators, Optimize either keeps it, replaces a scan    *)
(* and its filter by an index scan, finds that nothing is to be executed   *)
(* (nil) or fails, and StreamStmt.Run runs the operators over the          *)
(* database.                                                               *)
(*   explained : db, the database (the keys of the documents of the table, *)
(*               those an UPDATE replaced, the index entries and the       *)
(*               docid sequence); op, stmt, ok, how: the last call and its *)
(*               inputs; before: the database when it was made; rows, err: *)
(*               what it returned                                          *)
(***************************************************************************)
StreamStatements == {"SELECT", "UPDATE", "INSERT", "DELETE"}
OtherStatements == {"CREATE TABLE", "DROP TABLE"}

\* The stream of a statement.
ToStream(kind) ==
    CASE kind = "SELECT" -> <<[op |-> "seqScan"], [op |-> "filter"]>>
      [] kind = "UPDATE" ->
            <<[op |-> "seqScan"], [op |-> "filter"], [op |-> "tableReplace"]>>
      [] kind = "INSERT" -> <<[op |-> "expressions"], [op |-> "tableInsert"]>>
      [] kind = "DELETE" ->
            <<[op |-> "seqScan"], [op |-> "filter"], [op |-> "tableDelete"]>>

\* Whether ToStream can fail: UpdateStmt.ToStream returns no error.
ToStreamErr(kind, ok) == IF kind = "UPDATE" \/ ok THEN None ELSE "ErrToStream"

Outcomes == {"same", "indexScan", "nil", "error"}

\* planner.Optimize: the stream (<<>> for nil) and the error.
Optimize(st, how) ==
    CASE how = "error" -> [s |-> <<>>, err |-> "ErrOptimize"]
      [] how = "nil" -> [s |-> <<>>, err |-> None]
      [] how = "indexScan" ->
            [s |-> IF Len(st) >= 2 /\ st[1].op = "seqScan" /\ st[2].op = "filter"
                   THEN <<[op |-> "indexScan"]>> \o SubSeq(st, 3, Len(st))
                   ELSE st,
             err |-> None]
      [] OTHER -> [s |-> st, err |-> None]

\* Stream.String: the operators, separated by "|".
RECURSIVE StreamString(_)
StreamString(st) ==
    IF st = <<>> THEN <<>>
    ELSE IF Len(st) = 1 THEN <<Head(st).op>>
    ELSE <<Head(st).op, "|">> \o StreamString(Tail(st))

\* The text of the plan.
Plan(st) == IF st # <<>> THEN StreamString(st) ELSE <<"<no exec>">>

\* One operator of a stream, applied to the rows that reach it.
StreamOp(o, r) ==
    CASE o.op \in {"seqScan", "indexScan"} ->
            [r EXCEPT !.rows = {<< <<"k", k>> >> : k \in r.db.docs}]
      [] o.op = "expressions" -> [r EXCEPT !.rows = {<< <<"k", r.db.seq + 1>> >>}]
      [] o.op = "project" -> [r EXCEPT !.rows = {<< <<o.name, o.value>> >>}]
      [] o.op = "tableInsert" ->
            IF r.db.seq >= MaxSeq THEN [r EXCEPT !.err = "ErrFull", !.rows = {}]
            ELSE [r EXCEPT !.db.docs = @ \cup {r.db.seq + 1},
                           !.db.idx = @ \cup {r.db.seq + 1},
                           !.db.seq = @ + 1]
      [] o.op = "tableReplace" -> [r EXCEPT !.db.replaced = @ \cup r.db.docs]
      [] o.op = "tableDelete" ->
            [r EXCEPT !.db.docs = {}, !.db.idx = {}, !.db.replaced = {}]
      [] OTHER -> r

\* StreamStmt.Run: the operators of the stream, first to last.
RECURSIVE StreamRun(_, _)
StreamRun(st, r) ==
    IF st = <<>> \/ r.err # None THEN r
    ELSE StreamRun(Tail(st), StreamOp(Head(st), r))

StreamStmtRun(st, db) == StreamRun(st, [db |-> db, rows |-> {}, err |-> None])

\* The statement that ExplainStmt.Run runs in the end.
NewStatement_Inner(ss, plan) == ss

NewStatement(ss, plan) == <<[op |-> "project", name |-> "plan", value |-> plan]>>

\* ExplainStmt.Run on a statement of the given kind.
ExplainStmtRun(kind, ok, how, db) ==
    IF kind \notin StreamStatements
    THEN [db |-> db, rows |-> {}, err |-> "EXPLAIN only works on INSERT, SELECT, UPDATE AND DELETE statements"]
    ELSE IF ToStreamErr(kind, ok) # None
    THEN [db |-> db, rows |-> {}, err |-> ToStreamErr(kind, ok)]
    ELSE LET o == Optimize(ToStream(kind), how)
         IN  IF o.err # None THEN [db |-> db, rows |-> {}, err |-> o.err]
             ELSE StreamStmtRun(NewStatement(ToStream(kind), Plan(o.s)), db)

ExplRun(kind, ok, how) ==
    /\ LET r == ExplainStmtRun(kind, ok, how, explained.db)
       IN  explained' = [db |-> r.db, op |-> "EXPLAIN", stmt |-> kind, ok |-> ok,
                         how |-> how, before |-> explained.db,
                         rows |-> r.rows, err |-> r.err]
    /\ UNCHANGED <<operation, update, database, txVars, runVars, tblVars, insVars,
                   valVars, seqVars, ddlVars, qryVars>>

\* The statement itself is run.
ExplExec(kind) ==
    /\ LET r == StreamStmtRun(ToStream(kind), explained.db)
       IN  explained' = [db |-> r.db, op |-> "Run", stmt |-> kind, ok |-> TRUE,
                         how |-> "same", before |-> explained.db,
                         rows |-> r.rows, err |-> r.err]
    /\ UNCHANGED <<operation, update, database, txVars, runVars, tblVars, insVars,
                   valVars, seqVars, ddlVars, qryVars>>

InitExplain ==
    /\ explained = [db |-> [docs |-> {}, replaced |-> {}, idx |-> {}, seq |-> 0],
                    op |-> None, stmt |-> None, ok |-> TRUE, how |-> "same",
                    before |-> [docs |-> {}, replaced |-> {}, idx |-> {}, seq |-> 0],
                    rows |-> {}, err |-> None]
    /\ operation = None /\ update = None /\ database = None
    /\ IdleTx /\ IdleRun /\ IdleTbl /\ IdleIns /\ IdleVal /\ IdleSeq /\ IdleDdl
    /\ IdleRes /\ IdleStr /\ IdlePrj /\ IdleEng

NextExplain ==
    \/ \E kind \in StreamStatements \cup OtherStatements, ok \in BOOLEAN,
          how \in Outcomes : ExplRun(kind, ok, how)
    \/ \E kind \in StreamStatements : ExplExec(kind)

SpecExplain == InitExplain /\ [][NextExplain]_vars

(***************************************************************************)
(* C31: EXPLAIN of a SELECT, INSERT, UPDATE or DELETE statement does not   *)
(* run the statement: the database is as it was, and one row is returned   *)
(* whose only field, plan, holds the text of the optimized stream; EXPLAIN *)
(* of another statement fails.  C31_AlwaysOneRow states it of every        *)
(* EXPLAIN; C31_OneRowUnlessFailed lets Run return the error of ToStream   *)
(* or of Optimize, and lets the plan be "<no exec>" when Optimize returns  *)
(* no stream.                                                              *)
(***************************************************************************)
C31_Optimized == Optimize(ToStream(explained.stmt), explained.how)

C31_AlwaysOneRow ==
    explained.op = "EXPLAIN" =>
        /\ explained.db = explained.before
        /\ IF explained.stmt \in StreamStatements
           THEN /\ explained.err = None
                /\ explained.rows =
                       {<< <<"plan", StreamString(C31_Optimized.s)>> >>}
           ELSE explained.err # None /\ explained.rows = {}

C31_OneRowUnlessFailed ==
    explained.op = "EXPLAIN" =>
        /\ explained.db = explained.before
        /\ IF explained.stmt \notin StreamStatements
           THEN explained.err # None /\ explained.rows = {}
           ELSE IF ToStreamErr(explained.stmt, explained.ok) # None
           THEN /\ explained.err = ToStreamErr(explained.stmt, explained.ok)
                /\ explained.rows = {}
           ELSE IF C31_Optimized.err # None
           THEN explained.err = C31_Optimized.err /\ explained.rows = {}
           ELSE /\ explained.err = None
                /\ explained.rows =
                       {<< <<"plan",
                             IF C31_Optimized.s = <<>> THEN <<"<no exec>">>
                             ELSE StreamString(C31_Optimized.s)>> >>}

\* EXPLAIN DELETE on a table that holds documents returns the plan with
\* the index scan.
C31_Witness ==
    /\ explained.op = "EXPLAIN" /\ explained.stmt = "DELETE"
    /\ explained.before.docs # {} /\ explained.err = None
    /\ explained.how = "indexScan"
    /\ explained.rows = {<< <<"plan", <<"indexScan", "|", "tableDelete">> >> >>}

(***************************************************************************)
(* SpecOperator: the comparison operators of package expr, evaluated and   *)
(* compared with Equal.  An operand is a literal or a field selector of    *)
(* one chunk; the environment holds a document with the field a, one       *)
(* without it, or no document.  The comparisons of document.Value are      *)
(* outside the sources at hand: values of one type compare by content,     *)
(* values of different types are neither equal nor ordered.                *)
(*   operation : call ("Eval" or "Equal"), the operator expression e, the  *)
(*               environment or the other expression, whether the call has *)
(*               been made (done) and its result                           *)
(***************************************************************************)
BoolValue(b) == [type |-> "bool", v |-> IF b THEN 1 ELSE 0]
ArrayValue(elems) == [type |-> "array", v |-> 0, elems |-> elems]

trueLitteral == BoolValue(TRUE)
falseLitteral == BoolValue(FALSE)
nullLitteral == Null

Scalars32 == {Null, IntegerValue(1), IntegerValue(2), trueLitteral}
Arrays32 == {ArrayValue(<<>>), ArrayValue(<<IntegerValue(1)>>),
             ArrayValue(<<Null, IntegerValue(2)>>)}

LiteralValue(v) == [kind |-> "literal", value |-> v]
FieldSelector(path) == [kind |-> "field", path |-> path]

\* Environments: no document, a document without the field a, and
\* documents where a is Null or 1.
Environments ==
    {[hasDoc |-> FALSE, a |-> Missing]} \cup
    {[hasDoc |-> TRUE, a |-> v] : v \in {Missing, Null, IntegerValue(1)}}

CmpTokens == {"=", "!=", ">", ">=", "<", "<="}
OperatorNames == CmpTokens \cup {"IN", "NOT IN", "IS", "IS NOT"}

\* The scanner.Token that the constructor of each operator passes to
\* simpleOperator: In, NotIn, Is and IsNot all pass scanner.IN.
Token(name) == IF name \in CmpTokens THEN name ELSE "IN"

Operator(name, a, b) ==
    [kind |-> "operator", name |-> name, tok |-> Token(name), a |-> a, b |-> b]

\* document.Value.IsEqual and the order of two values.
IsEqual(l, r) == l = r
IsGreaterThan(l, r) ==
    l.type = r.type /\ l.type \in {"integer", "bool"} /\ l.v > r.v

\* document.ArrayContains
ArrayContains(arr, v) == \E i \in 1..Len(arr.elems) : IsEqual(arr.elems[i], v)

\* Eval of an operand: LiteralValue.Eval and FieldSelector.Eval.
OperandEval(x, env) ==
    IF x.kind = "literal" THEN [v |-> x.value, err |-> None]
    ELSE IF ~env.hasDoc THEN [v |-> nullLitteral, err |-> ErrFieldNotFound]
    ELSE IF env.a = Missing THEN [v |-> nullLitteral, err |-> None]
    ELSE [v |-> env.a, err |-> None]

\* simpleOperator.eval
simpleOperatorEval(e, env) ==
    LET va == OperandEval(e.a, env)
        vb == OperandEval(e.b, env)
    IN  IF va.err # None
        THEN [a |-> nullLitteral, b |-> nullLitteral, err |-> va.err]
        ELSE IF vb.err # None
        THEN [a |-> nullLitteral, b |-> nullLitteral, err |-> vb.err]
        ELSE [a |-> va.v, b |-> vb.v, err |-> None]

\* cmpOp.compare
compare(tok, l, r) ==
    CASE tok = "=" -> IsEqual(l, r)
      [] tok = "!=" -> ~IsEqual(l, r)
      [] tok = ">" -> IsGreaterThan(l, r)
      [] tok = ">=" -> IsGreaterThan(l, r) \/ IsEqual(l, r)
      [] tok = "<" -> IsGreaterThan(r, l)
      [] tok = "<=" -> IsGreaterThan(r, l) \/ IsEqual(l, r)

\* if v1.Type == document.NullValue || v2.Type == document.NullValue
EitherNull_LeftOnly(v1, v2) == v1.type = "null"

EitherNull(v1, v2) == v1.type = "null" \/ v2.type = "null"

\* cmpOp.Eval
cmpOpEval(e, env) ==
    LET r == simpleOperatorEval(e, env)
    IN  IF r.err # None THEN [v |-> falseLitteral, err |-> r.err]
        ELSE IF EitherNull(r.a, r.b) THEN [v |-> nullLitteral, err |-> None]
        ELSE [v |-> BoolValue(compare(e.tok, r.a, r.b)), err |-> None]

\* InOperator.Eval
InOperatorEval(e, env) ==
    LET r == simpleOperatorEval(e, env)
    IN  IF r.err # None THEN [v |-> nullLitteral, err |-> r.err]
        ELSE IF EitherNull(r.a, r.b) THEN [v |-> nullLitteral, err |-> None]
        ELSE IF r.b.type # "array" THEN [v |-> falseLitteral, err |-> None]
        ELSE [v |-> BoolValue(ArrayContains(r.b, r.a)), err |-> None]

invertBoolResult(r) ==
    IF r.err # None THEN r
    ELSE IF r.v = trueLitteral THEN [v |-> falseLitteral, err |-> None]
    ELSE IF r.v = falseLitteral THEN [v |-> trueLitteral, err |-> None]
    ELSE r

\* IsOperator.Eval and IsNotOperator.Eval
IsOperatorEval(e, env, not) ==
    LET r == simpleOperatorEval(e, env)
    IN  IF r.err # None THEN [v |-> nullLitteral, err |-> r.err]
        ELSE [v |-> BoolValue(IsEqual(r.a, r.b) # not), err |-> None]

\* Eval of an operator expression.
OperatorEval(e, env) ==
    CASE e.name \in CmpTokens -> cmpOpEval(e, env)
      [] e.name = "IN" -> InOperatorEval(e, env)
      [] e.name = "NOT IN" -> invertBoolResult(InOperatorEval(e, env))
      [] e.name = "IS" -> IsOperatorEval(e, env, FALSE)
      [] e.name = "IS NOT" -> IsOperatorEval(e, env, TRUE)

\* Expr.Equal: LiteralValue.Equal, FieldSelector.Equal, simpleOperator.Equal.
RECURSIVE ExprEqual(_, _)
ExprEqual(x, other) ==
    CASE x.kind = "literal" ->
            other.kind = "literal" /\ IsEqual(x.value, other.value)
      [] x.kind = "field" -> other.kind = "field" /\ x.path = other.path
      [] x.kind = "operator" ->
            /\ other.kind = "operator"
            /\ x.tok = other.tok
            /\ ExprEqual(x.a, other.a)
            /\ ExprEqual(x.b, other.b)

Operands32 ==
    {LiteralValue(v) : v \in Scalars32 \cup Arrays32} \cup {FieldSelector("a")}

Operands34 ==
    {LiteralValue(IntegerValue(1)), LiteralValue(IntegerValue(2)),
     FieldSelector("a"), FieldSelector("b")}

\* The calls of the model: Eval of an operator in an environment, Equal of
\* an operator and another expression.
Calls ==
    {[call |-> "Eval", e |-> Operator(name, a, b), env |-> env, other |-> None] :
        name \in OperatorNames, a \in Operands32, b \in Operands32,
        env \in Environments}
    \cup
    {[call |-> "Equal", e |-> Operator(n1, a1, b1), env |-> None,
      other |-> Operator(n2, a2, b2)] :
        n1 \in OperatorNames, n2 \in OperatorNames,
        a1 \in Operands34, b1 \in Operands34,
        a2 \in Operands34, b2 \in Operands34}
    \cup
    {[call |-> "Equal", e |-> Operator(n1, a1, b1), env |-> None, other |-> x] :
        n1 \in OperatorNames, a1 \in Operands34, b1 \in Operands34,
        x \in Operands34}

OpEval ==
    /\ ~operation.done /\ operation.call = "Eval"
    /\ LET r == OperatorEval(operation.e, operation.env)
       IN  operation' = [operation EXCEPT !.res = r.v, !.err = r.err,
                                          !.done = TRUE]
    /\ UNCHANGED <<explained, update, database, txVars, runVars, tblVars, insVars,
                   valVars, seqVars, ddlVars, qryVars>>

OpEqual ==
    /\ ~operation.done /\ operation.call = "Equal"
    /\ operation' = [operation EXCEPT
                        !.res = BoolValue(ExprEqual(operation.e, operation.other)),
                        !.done = TRUE]
    /\ UNCHANGED <<explained, update, database, txVars, runVars, tblVars, insVars,
                   valVars, seqVars, ddlVars, qryVars>>

InitOperator ==
    /\ \E c \in Calls :
          operation = [call |-> c.call, e |-> c.e, env |-> c.env,
                       other |-> c.other, res |-> nullLitteral, err |-> None,
                       done |-> FALSE]
    /\ explained = None /\ update = None /\ database = None
    /\ IdleTx /\ IdleRun /\ IdleTbl /\ IdleIns /\ IdleVal /\ IdleSeq /\ IdleDdl
    /\ IdleRes /\ IdleStr /\ IdlePrj /\ IdleEng

NextOperator == OpEval \/ OpEqual

SpecOperator == InitOperator /\ [][NextOperator]_vars

(***************************************************************************)
(* C32: when both operands of =, !=, >, >=, <, <=, IN or NOT IN have been  *)
(* evaluated and one of them is Null, the operator evaluates to Null,      *)
(* without an error.                                                       *)
(***************************************************************************)
C32_Operands ==
    [a |-> OperandEval(operation.e.a, operation.env),
     b |-> OperandEval(operation.e.b, operation.env)]

C32_NullOperand ==
    /\ operation.call = "Eval" /\ operation.done
    /\ operation.e.name \in CmpTokens \cup {"IN", "NOT IN"}
    /\ C32_Operands.a.err = None /\ C32_Operands.b.err = None
    /\ C32_Operands.a.v = Null \/ C32_Operands.b.v = Null

C32_NullComparesToNull ==
    C32_NullOperand => (operation.res = Null /\ operation.err = None)

\* 1 NOT IN (a), where the field a of the document is Null.
C32_Witness ==
    /\ C32_NullOperand
    /\ operation.e.name = "NOT IN"
    /\ operation.e.a = LiteralValue(IntegerValue(1))
    /\ operation.e.b = FieldSelector("a")
    /\ operation.env.hasDoc /\ operation.env.a = Null

(***************************************************************************)
(* C34: Equal of two operator expressions is true only when they are the   *)
(* same operator with pairwise equal operands; a IS b, a IS NOT b, a IN b  *)
(* and a NOT IN b are not equal to one another.                            *)
(***************************************************************************)
C34_EqualIsStructural ==
    (operation.call = "Equal" /\ operation.done
        /\ operation.res = trueLitteral) =>
        /\ operation.other.kind = "operator"
        /\ operation.other.name = operation.e.name
        /\ ExprEqual(operation.e.a, operation.other.a)
        /\ ExprEqual(operation.e.b, operation.other.b)

(***************************************************************************)
(* SpecUpdate: UpdateStmt.Run, one batch of the loop at a time.  The table *)
(* holds documents with the fields p and q under the keys 1..n; the        *)
(* statement is UPDATE t SET p = e [WHERE w].  A document whose key is in  *)
(* bad cannot be scanned (ScanDocument or the evaluation of e fails).      *)
(*   update : pc ("start", "loop", "done"); the inputs TableName, Pairs,   *)
(*            WhereExpr, bad; table, the documents stored, and orig, those *)
(*            stored when Run began; curKey (0 for nil); replaced, how     *)
(*            often Table.Replace was called for each key; batches; cbErr, *)
(*            the first error a callback of st.Iterate returned; err, the  *)
(*            error Run returned.  The two counters stop at MaxBatches.    *)
(***************************************************************************)
deleteBufferSize == updateBufferSize

NotExpr(e) == <<"NOT", e>>

\* NOT in three-valued logic.
NotValue(v) == CASE v = "true" -> "false" [] v = "false" -> "true" [] OTHER -> v

\* e.Eval for the expression of a SET pair.
SetEval(e, d) == IF e[1] = "NOT" THEN NotValue(Eval(e[2], d)) ELSE Eval(e, d)

\* The callback's loop over stmt.Pairs: the buffered document.
SetPairs(pairs, d) == [p |-> SetEval(pairs[1], d), q |-> d.q]

\* resumableIterator.Iterate: the documents from it.Seek(u.curKey) on.
RECURSIVE Seek(_, _)
Seek(table, k) ==
    IF k > Len(table) THEN <<>>
    ELSE <<[p |-> table[k].p, q |-> table[k].q, key |-> k]>> \o Seek(table, k + 1)

resumableIterator(table, curKey) == Seek(table, IF curKey = 0 THEN 1 ELSE curKey)

\* st.Iterate(func ...) of one batch, st being
\* NewStream(&rit).Filter(whereClause(...)).Limit(updateBufferSize), from
\* the j-th document of rit on.  The closure of Filter drops a document
\* that does not satisfy the WHERE clause; the closure of Limit returns
\* ErrStreamClosed once it has passed updateBufferSize documents, which
\* Stream.Iterate turns into nil; the error of the callback is returned.
\* got are the documents that the callback has buffered.
RECURSIVE BatchScan(_, _, _, _)
BatchScan(u, docs, j, got) ==
    IF j > Len(docs) THEN [got |-> got, i |-> Len(got), err |-> None]
    ELSE IF ~whereClause(u.WhereExpr, docs[j]) THEN BatchScan(u, docs, j + 1, got)
    ELSE IF Len(got) >= updateBufferSize
    THEN [got |-> got, i |-> Len(got), err |-> None]
    ELSE IF docs[j].key \in u.bad
    THEN [got |-> got, i |-> Len(got), err |-> "ErrScan"]
    ELSE BatchScan(u, docs, j + 1, Append(got, docs[j]))

BatchIterate(u) == BatchScan(u, resumableIterator(u.table, u.curKey), 1, <<>>)

\* for j := 0; j < i; j++ { err = t.Replace(keys[j], docs[j]) }
RECURSIVE ReplaceBuffered(_, _, _, _)
ReplaceBuffered(u, got, j, i) ==
    IF j > i THEN u
    ELSE ReplaceBuffered(
             [u EXCEPT !.table[got[j].key] = SetPairs(u.Pairs, got[j]),
                       !.replaced[got[j].key] = IF @ < MaxBatches THEN @ + 1 ELSE @,
                       !.err = None],
             got, j + 1, i)

\* rit.curKey = keys[i-1]
Resume_FirstKey(got, i) == got[1].key

Resume(got, i) == got[i].key

\* The error that Run goes on with after st.Iterate.
AfterIterate(u, b) == [u EXCEPT !.err = b.err]

UpdStart ==
    /\ update.pc = "start"
    /\ update' =
         IF update.TableName = ""
         THEN [update EXCEPT !.pc = "done", !.err = "missing table name"]
         ELSE IF update.Pairs = <<>>
         THEN [update EXCEPT !.pc = "done", !.err = "Set method not called"]
         ELSE [update EXCEPT !.pc = "loop"]
    /\ UNCHANGED <<explained, operation, database, txVars, runVars, tblVars, insVars,
                   valVars, seqVars, ddlVars, qryVars>>

\* One turn of the for loop.
UpdBatch ==
    /\ update.pc = "loop"
    /\ LET b  == BatchIterate(update)
           u1 == [AfterIterate(update, b) EXCEPT
                     !.batches = IF @ < MaxBatches THEN @ + 1 ELSE @,
                     !.cbErr = IF @ = None THEN b.err ELSE @]
           u2 == IF u1.pc = "done" THEN u1
                 ELSE ReplaceBuffered(u1, b.got, 1, b.i)
       IN  update' =
             IF u2.pc = "done" THEN u2
             ELSE IF b.i < deleteBufferSize THEN [u2 EXCEPT !.pc = "done"]
             ELSE [u2 EXCEPT !.curKey = Resume(b.got, b.i)]
    /\ UNCHANGED <<explained, operation, database, txVars, runVars, tblVars, insVars,
                   valVars, seqVars, ddlVars, qryVars>>

UpdDocuments == [p : {"true", "false"}, q : {"true", "false"}]

InitUpdate ==
    /\ \E table \in SeqsUpTo(UpdDocuments, MaxUpdKeys),
          pairs \in {<<>>, <<NotExpr(PathExpr("p"))>>, <<PathExpr("q")>>},
          where \in {NoExpr, PathExpr("p"), PathExpr("q")},
          name \in {"", "t"} :
         \E bad \in {{}} \cup {{k} : k \in 1..Len(table)} :
            /\ (name = "" \/ pairs = <<>>) =>
                  (table = <<>> /\ where = NoExpr /\ (name = "" => pairs = <<>>))
            /\ update = [pc |-> "start", TableName |-> name, Pairs |-> pairs,
                         WhereExpr |-> where, bad |-> bad,
                         table |-> table, orig |-> table, curKey |-> 0,
                         replaced |-> [k \in 1..Len(table) |-> 0],
                         batches |-> 0, cbErr |-> None, err |-> None]
    /\ explained = None /\ operation = None /\ database = None
    /\ IdleTx /\ IdleRun /\ IdleTbl /\ IdleIns /\ IdleVal /\ IdleSeq /\ IdleDdl
    /\ IdleRes /\ IdleStr /\ IdlePrj /\ IdleEng

NextUpdate == UpdStart \/ UpdBatch

SpecUpdate == InitUpdate /\ [][NextUpdate]_vars

\* Run on a table whose documents can all be scanned; Run is not suspended
\* for ever: the loop goes on while it can.
InitUpdateFair ==
    /\ InitUpdate
    /\ update.TableName = "t" /\ update.Pairs # <<>> /\ update.bad = {}

SpecUpdateFair ==
    InitUpdateFair /\ [][NextUpdate]_vars /\ WF_vars(NextUpdate)

(***************************************************************************)
(* C33: when the callback of st.Iterate fails for a document (the document *)
(* cannot be scanned, or a SET expression fails with an error other than   *)
(* ErrFieldNotFound), Run returns that error, also when documents of the   *)
(* same batch were buffered before.                                        *)
(***************************************************************************)
C33_ScanErrorReturned ==
    (update.pc = "done" /\ update.cbErr # None) => update.err = update.cbErr

(***************************************************************************)
(* C35: when Run has returned without error, every document that           *)
(* satisfied the WHERE clause was replaced exactly once, by the document   *)
(* with the SET expressions evaluated against it as it was stored before   *)
(* the statement, and the other documents were not replaced.               *)
(***************************************************************************)
C35_Matches(k) ==
    whereClause(update.WhereExpr, update.orig[k])

C35_EachMatchReplacedOnce ==
    (update.pc = "done" /\ update.err = None /\ update.cbErr = None
        /\ update.batches > 0) =>
        \A k \in 1..Len(update.orig) :
            IF C35_Matches(k)
            THEN /\ update.replaced[k] = 1
                 /\ update.table[k] = SetPairs(update.Pairs, update.orig[k])
            ELSE /\ update.replaced[k] = 0
                 /\ update.table[k] = update.orig[k]

(***************************************************************************)
(* C40: Run terminates: every resumption of the scan sets curKey beyond    *)
(* the key it resumed from before, and Run returns after finitely many     *)
(* batches.                                                                *)
(***************************************************************************)
C40_ResumesFurther ==
    [][update'.curKey # update.curKey => update'.curKey > update.curKey]_vars

C40_Terminates == C40_ResumesFurther /\ <>(update.pc = "done")

\* Run has returned after three batches: it resumed the scan twice.
C40_Witness == update.pc = "done" /\ update.batches = 3 /\ update.curKey = 3

(***************************************************************************)
(* SpecDatabase: Database.New and Database.Begin over an engine whose      *)
(* calls can fail.  dbData is the set of the names of the committed        *)
(* stores, as in SpecEngine; Engine.Begin does not fail.                   *)
(*   database : db, whether New has returned a Database; the last call of  *)
(*              New or Begin: op, the engine transaction t it began, and   *)
(*              the error it returned                                      *)
(***************************************************************************)
tableConfigStoreName == "tableConfig"
indexStoreName == "index"

\* The call of the engine that fails during New or Begin, None when none.
Faults == {None, "GetStore1", "CreateStore1", "GetStore2", "CreateStore2", "Commit"}

\* _, err = ntx.GetStore(name)
\* if err == engine.ErrStoreNotFound { err = ntx.CreateStore(name) }
\* r is the transaction and the error so far: after an error New has
\* returned.
EnsureStore(r, data, name, getFails, createFails) ==
    IF r.err # None THEN r
    ELSE IF getFails THEN [r EXCEPT !.err = "ErrEngine"]
    ELSE IF name \in ApplyWrites(data, r.tx.writes) THEN r
    ELSE IF createFails THEN [r EXCEPT !.err = "ErrEngine"]
    ELSE [r EXCEPT !.tx.writes = Write(@, "set", name)]

\* Database.New after db.ng.Begin(true): the engine transaction as New
\* leaves it, the committed stores and the error returned.
New(data, fault) ==
    LET r0 == [tx |-> NewTransaction(TRUE, 0, FALSE), err |-> None]
        r1 == EnsureStore(r0, data, tableConfigStoreName,
                          fault = "GetStore1", fault = "CreateStore1")
        r2 == EnsureStore(r1, data, indexStoreName,
                          fault = "GetStore2", fault = "CreateStore2")
        ok == fault # "Commit"
        tx == IF r2.err # None THEN r2.tx ELSE TxCommit(<<r2.tx>>, 1, ok)[1]
    IN  [tx   |-> TxRollback(<<tx>>, 1)[1],   \* defer ntx.Rollback()
         data |-> IF r2.err # None THEN data ELSE CommitStores(data, r2.tx, ok),
         err  |-> IF r2.err # None THEN r2.err ELSE CommitErr(r2.tx, ok)]

\* tx.getTableConfigStore() and tx.getIndexStore(): the error of the first
\* that fails.
GetConfigStoresErr(data, fault) ==
    IF fault = "GetStore1" THEN "ErrEngine"
    ELSE IF tableConfigStoreName \notin data THEN "ErrStoreNotFound"
    ELSE IF fault = "GetStore2" THEN "ErrEngine"
    ELSE IF indexStoreName \notin data THEN "ErrStoreNotFound"
    ELSE None

\* Database.Begin after db.ng.Begin(writable): the error it returns.  The
\* engine transaction is not touched again.
Begin(data, fault) == GetConfigStoresErr(data, fault)

DatabaseNew(fault) ==
    /\ Len(txs) < MaxTx
    /\ LET n == New(dbData, fault)
       IN  /\ txs' = Append(txs, n.tx)
           /\ dbData' = n.data
           /\ database' = [db |-> database.db \/ n.err = None, op |-> "New",
                           t |-> Len(txs) + 1, err |-> n.err]
    /\ UNCHANGED <<explained, operation, update, runVars, tblVars, insVars,
                   valVars, seqVars, ddlVars, qryVars>>

DatabaseBegin(writable, fault) ==
    /\ database.db
    /\ Len(txs) < MaxTx
    /\ txs' = EngineBegin(txs, writable, 0, Begin(dbData, fault) # None)
    /\ database' = [database EXCEPT !.op = "Begin", !.t = Len(txs) + 1,
                                    !.err = Begin(dbData, fault)]
    /\ UNCHANGED <<dbData, explained, operation, update, runVars, tblVars,
                   insVars, valVars, seqVars, ddlVars, qryVars>>

InitDatabase ==
    /\ txs = <<>>
    /\ dbData \in SUBSET {tableConfigStoreName, indexStoreName}
    /\ database = [db |-> FALSE, op |-> None, t |-> 0, err |-> None]
    /\ explained = None /\ operation = None /\ update = None
    /\ IdleRun /\ IdleTbl /\ IdleIns /\ IdleVal /\ IdleSeq /\ IdleDdl
    /\ IdleRes /\ IdleStr /\ IdlePrj /\ IdleEng

NextDatabase ==
    \/ \E fault \in Faults : DatabaseNew(fault)
    \/ \E writable \in BOOLEAN, fault \in {None, "GetStore1", "GetStore2"} :
          DatabaseBegin(writable, fault)
    \/ \E t \in 1..Len(txs), ok \in BOOLEAN : DbCommit(t, ok)
    \/ \E t \in 1..Len(txs) : DbRollback(t)

SpecDatabase == InitDatabase /\ [][NextDatabase]_vars

(***************************************************************************)
(* C37: when Database.New or Database.Begin returns an error, the engine   *)
(* transaction that the call began has been rolled back: a failed Begin    *)
(* leaves no open engine transaction, writable or not.                     *)
(***************************************************************************)
C37_FailedCallRolledBack ==
    (database.op # None /\ database.err # None) =>
        ~IsOpen(txs[database.t])

=============================================================================
